---- MODULE Spec2Model ----
(***************************************************************************)
(* KanMind: the user, board, task and comment tables of auth_app and       *)
(* kanban_app and the views, permission classes and serializers that guard *)
(* them.  A request is served by a worker, and nothing in the code opens a *)
(* transaction around a handler: every statement that reads or writes the  *)
(* board, task or comment tables is an action of its own, and the store    *)
(* may change between two statements of the same request.  What a request  *)
(* loaded stays with its worker.  A request is the parameters of the       *)
(* action that takes it up, the answer is the variable resp.               *)
(***************************************************************************)
EXTENDS Integers, FiniteSets, Sequences, TLC

\* ---------------------------------------------------------------- bounds
\* Number of users that register.
NUsers == 2
\* Number of workers of the specifications that serve one request at a time
\* and of the specifications that serve requests side by side.
SerialWorkers == 1
NWorkers == 2
\* Number of boards / tasks / comments ever created (primary keys are
\* handed out 1, 2, ... and never reused).
MaxBoards == 1
MaxTasks == 1
MaxComments == 1
\* The same, for the specification that runs several boards side by side.
WideBoards == 2
WideTasks == 2
WideComments == 2

\* ------------------------------------------------------------- constants
\* The ids the requests name as sender, member, assignee or reviewer: the
\* ids the users that register get, whether or not they have yet.
UserIds == 1..NUsers
\* request.user of a request without credentials (AnonymousUser).
Anonymous == 0
\* A nullable foreign key that is NULL / a JSON null.
Null == 0
\* A field or query parameter the request does not carry.
Absent == -1
NoTitle == "<absent>"
NoValue == "<absent>"
\* A user id no User row ever has.
GhostUser == NUsers + 1

STATUS_CHOICES == {"to-do", "in-progress", "review", "done"}
PRIORITY_CHOICES == {"low", "medium", "high"}
DefaultStatus == "to-do"
DefaultPriority == "medium"

VARIABLES
    users,         \* pk -> [email, password, token]: the User rows, token TRUE once the user's Token row exists
    boards,        \* pk -> [title, owner, members]
    nextBoardId,   \* boards created so far
    tasks,         \* pk -> [board, title, status, priority, assignee, reviewer, due_date, creator]
    nextTaskId,
    comments,      \* pk -> [task, author, content, created_at]
    nextCommentId,
    clock,         \* readings of the server's clock taken so far
    resp,          \* the response this step sent, [op, user, code, body]; NoAnswer when it sent none
    inflight       \* worker -> the request it is in the middle of, statement by statement

vars == <<users, boards, nextBoardId, tasks, nextTaskId, comments, nextCommentId, clock, resp, inflight>>
store == <<users, boards, nextBoardId, tasks, nextTaskId, comments, nextCommentId, clock>>

Restrict(f, S) == [x \in S |-> f[x]]

\* A response without a list in it, and the response of a list route: the
\* primary keys of the rows it returns, in the order it returns them.
Answer(op, user, code) == [op |-> op, user |-> user, code |-> code, body |-> <<>>]
Listed(op, user, code, body) == [op |-> op, user |-> user, code |-> code, body |-> body]
\* A step of a handler that sends no response yet.
NoAnswer == Answer("None", Anonymous, "None")

\* User.objects.all(): primary keys are handed out 1, 2, ... and no route
\* deletes a user.
Users == DOMAIN users

\* ----------------------------------------------------------- permissions
\* IsAuthenticated with token authentication: the sender is the user whose
\* Token row the request's credentials name.
IsAuthenticated(user) == user \in Users /\ users[user].token

\* A Board instance as Board.objects.get() / get_object() / task.board load
\* it: the columns of the row, without the rows of its members relation.
BoardInstance(pk) == [pk |-> pk, title |-> boards[pk].title, owner |-> boards[pk].owner]

\* board.members.all(): the rows of the relation that name the board at the
\* moment the expression is evaluated; none once the board is gone.
members_all(board) ==
    IF board.pk \in DOMAIN boards THEN boards[board.pk].members ELSE {}

\* The permissions that end in "request.user == board.owner or request.user
\* in board.members.all()" read the members only when the sender is not the
\* owner.  relation is <<>> as long as the members are not read and <<rows>>
\* once they are; the verdict is "Allowed", "Forbidden" or, when it takes the
\* query to tell, "Query".

IsBoardOwnerOrMember(user, obj) == user = obj.owner \/ user \in members_all(obj)
\* IsBoardOwner.has_object_permission
IsBoardOwner(user, obj) == user = obj.owner

IsBoardMemberOnly(user, obj, relation) ==
    IF relation = <<>> THEN "Query"
    ELSE IF user \in relation[1] THEN "Allowed"
    ELSE "Forbidden"
IsBoardOwnerOnly(user, obj, relation) ==
    IF user = obj.owner THEN "Allowed" ELSE "Forbidden"
\* IsBoardMemberOrOwner.has_object_permission
IsBoardMemberOrOwner(user, obj, relation) ==
    IF user = obj.owner THEN "Allowed"
    ELSE IF relation = <<>> THEN "Query"
    ELSE IF user \in relation[1] THEN "Allowed"
    ELSE "Forbidden"

\* IsBoardMemberForTaskCreate.has_permission, once the board is loaded
IsBoardMemberForTaskCreate(user, board, relation) ==
    IF user = board.owner THEN "Allowed"
    ELSE IF relation = <<>> THEN "Query"
    ELSE IF user \in relation[1] THEN "Allowed"
    ELSE "Forbidden"

IsTaskBoardOwnerOnly(user, board, relation) ==
    IF user = board.owner THEN "Allowed" ELSE "Forbidden"
\* IsTaskBoardMemberOrOwner.has_permission / has_object_permission, once
\* task.board is loaded
IsTaskBoardMemberOrOwner(user, board, relation) ==
    IF user = board.owner THEN "Allowed"
    ELSE IF relation = <<>> THEN "Query"
    ELSE IF user \in relation[1] THEN "Allowed"
    ELSE "Forbidden"

IsCommentAuthorOrBoardOwner(user, obj) ==
    obj.author = user \/ boards[tasks[obj.task].board].owner = user
\* IsCommentAuthor.has_object_permission
IsCommentAuthor(user, obj) == obj.author = user

IsTaskCreatorOrBoardMember(user, obj, board) ==
    obj.creator = user \/ board.owner = user \/ user \in members_all(board)
\* IsTaskCreatorOrBoardOwner.has_object_permission (obj is a task, board
\* its obj.board)
IsTaskCreatorOrBoardOwner(user, obj, board) ==
    obj.creator = user \/ board.owner = user

\* ----------------------------------------------------------------- state
Workers == 1..NWorkers
\* An e-mail address, [local, domain], and the one of a request without it.
NoEmail == [local |-> NoValue, domain |-> NoValue]
\* The bodies of a board request and of a task request that carry nothing,
\* and the Board and Task instances of a request that loaded none.
NoBoardData == [title |-> NoTitle, members |-> <<>>]
NoData == [board |-> Absent, title |-> NoTitle, status |-> NoValue,
           priority |-> NoValue, assignee |-> Absent, reviewer |-> Absent,
           due_date |-> Absent]
NoBoard == [pk |-> Null, title |-> NoTitle, owner |-> Null]
NoTask == [board |-> Null, title |-> NoTitle, status |-> NoValue,
           priority |-> NoValue, assignee |-> Null, reviewer |-> Null,
           due_date |-> Null, creator |-> Null]
\* A worker between requests.  A worker inside a request holds the request
\* (op, method, user, the pk of the URL, the ?board= filter q, the body of a
\* board request in data, of a task request in body, of a comment request in
\* content, of a registration in email and password) and what it loaded
\* from the store (the Board instance in board, the Task instance in task,
\* the member ids a members.set() or a delete found in old, the member rows
\* the DELETE of a members.set() removed in removed, the tasks a delete
\* collected in collected, the highest comment id there was when a delete
\* removed the comments in mark, the clock as a comment create read it in
\* now); pc tells which statement comes next.
Idle == [pc |-> "idle", op |-> "None", method |-> "None", user |-> Anonymous,
         pk |-> Null, q |-> Absent, data |-> NoBoardData, body |-> NoData,
         content |-> NoValue, email |-> NoEmail, password |-> NoValue,
         board |-> NoBoard, task |-> NoTask,
         old |-> {}, removed |-> {}, collected |-> {}, mark |-> 0, now |-> 0]

Init ==
    /\ users = <<>>
    /\ boards = <<>>
    /\ nextBoardId = 0
    /\ tasks = <<>>
    /\ nextTaskId = 0
    /\ comments = <<>>
    /\ nextCommentId = 0
    /\ clock = 0
    /\ resp = NoAnswer
    /\ inflight = [w \in Workers |-> Idle]

\* The view returns its Response, or an exception ends the request: the
\* answer is sent and the worker is between requests again.
Respond(w, op, user, code) ==
    /\ resp' = Answer(op, user, code)
    /\ inflight' = [inflight EXCEPT ![w] = Idle]
\* The handler goes on to its next statement, holding r.
GoOn(w, r) ==
    /\ resp' = NoAnswer
    /\ inflight' = [inflight EXCEPT ![w] = r]

\* ----------------------------------------------------------------- users
\* A registration body: [fullname, email, password, repeated_password],
\* fullname and the passwords a string or NoValue, email an address or
\* NoEmail.

\* str.lower() on the domain names in use.
LowerCase(domain) == IF domain = "EXAMPLE.org" THEN "example.org" ELSE domain
\* BaseUserManager.normalize_email: the domain part in lower case.
normalize_email(email) == [email EXCEPT !.domain = LowerCase(@)]

\* The uniqueness check of User.email (unique=True): the address as the request
\* spells it is looked up among the stored ones.
EmailTaken(email) == \E u \in Users : users[u].email = email

AnyPasswordsAccepted(data) == TRUE
\* RegistrationSerializer.validate
PasswordsMatch(data) == data.password = data.repeated_password

\* RegistrationSerializer.is_valid(): every field is required, the e-mail
\* address is not in use, the two passwords are the same.
RegistrationValid(data) ==
    /\ data.fullname # NoValue /\ data.email # NoEmail
    /\ data.password # NoValue /\ data.repeated_password # NoValue
    /\ ~EmailTaken(data.email)
    /\ PasswordsMatch(data)

\* POST /api/registration/ up to the first write: permission_classes = [],
\* anyone may send it.  A body that is not valid is answered 400.
RegistrationView_post(w, data) ==
    /\ inflight[w].pc = "idle"
    /\ IF RegistrationValid(data)
       THEN GoOn(w, [Idle EXCEPT !.pc = "validated", !.op = "Registration",
                                 !.method = "POST", !.email = data.email,
                                 !.password = data.password])
       ELSE Respond(w, "Registration", Anonymous, "ValidationError")
    /\ UNCHANGED store

\* CustomUserManager.create_user: the row it saves, with the normalized
\* address and the password set_password() stores; no Token row yet.
create_user(email, password) ==
    [email |-> normalize_email(email), password |-> password, token |-> FALSE]

\* RegistrationSerializer.create: User.objects.create_user(...), the INSERT
\* of the User row with the normalized address.  The column is unique: an
\* address that is in use by now ends the request with an IntegrityError.
RegistrationCreateUser(w) ==
    LET r == inflight[w]
        row == create_user(r.email, r.password)
        pk == Len(users) + 1
    IN  /\ r.pc = "validated"
        /\ IF EmailTaken(row.email)
           THEN /\ Respond(w, "Registration", Anonymous, "ServerError")
                /\ UNCHANGED users
           ELSE /\ users' = Append(users, row)
                /\ GoOn(w, [r EXCEPT !.pc = "userCreated", !.pk = pk])
        /\ UNCHANGED <<boards, nextBoardId, tasks, nextTaskId, comments, nextCommentId, clock>>

\* RegistrationSerializer.create: Token.objects.create(user=user), the
\* INSERT of the Token row, and the view's 201 with the token and the new
\* user's id.  A user has one token: when a login of the new user inserted it
\* meanwhile, the INSERT ends the request with an IntegrityError.
RegistrationCreateToken(w) ==
    LET r == inflight[w]
    IN  /\ r.pc = "userCreated"
        /\ IF users[r.pk].token
           THEN /\ UNCHANGED users
                /\ Respond(w, "Registration", r.pk, "ServerError")
           ELSE /\ users' = [users EXCEPT ![r.pk].token = TRUE]
                /\ Respond(w, "Registration", r.pk, "Created")
        /\ UNCHANGED <<boards, nextBoardId, tasks, nextTaskId, comments, nextCommentId, clock>>

\* CustomUserManager.create_superuser, called outside any request (the
\* createsuperuser command): create_user with is_staff and is_superuser set,
\* which no view or permission of the two apps reads.  The row gets no
\* token.  Without an address nothing is written (ValueError), nor when the
\* address is in use (IntegrityError).
create_superuser(email, password) ==
    LET row == create_user(email, password)
    IN  /\ email # NoEmail
        /\ ~EmailTaken(row.email)
        /\ users' = Append(users, row)
        /\ resp' = NoAnswer
        /\ UNCHANGED <<boards, nextBoardId, tasks, nextTaskId, comments, nextCommentId, clock,
                       inflight>>

\* A login body: [email, password], each as in a registration body.

\* authenticate(request, email=..., password=...): the user whose stored
\* address is the given one, if the password is theirs; Null otherwise.
authenticate(email, password) ==
    LET found == {u \in Users : users[u].email = email /\ users[u].password = password}
    IN  IF found = {} THEN Null ELSE CHOOSE u \in found : TRUE

\* POST /api/login/ : LoginView.post up to the SELECT of the token.
\* permission_classes = [], anyone may send it.  A body that lacks a field
\* and credentials that match no user are answered 400.
LoginView_post(w, data) ==
    LET user == authenticate(data.email, data.password)
    IN  /\ inflight[w].pc = "idle"
        /\ UNCHANGED store
        /\ IF data.email = NoEmail \/ data.password = NoValue \/ user = Null
           THEN Respond(w, "Login", Anonymous, "ValidationError")
           ELSE GoOn(w, [Idle EXCEPT !.pc = "loginToken", !.op = "Login",
                                     !.method = "POST", !.pk = user])

\* Token.objects.get_or_create(user=user): the SELECT of the user's token,
\* and the view's 200 when there is one.
LoginGetToken(w) ==
    LET r == inflight[w]
    IN  /\ r.pc = "loginToken"
        /\ UNCHANGED store
        /\ IF users[r.pk].token THEN Respond(w, r.op, r.pk, "OK")
           ELSE GoOn(w, [r EXCEPT !.pc = "loginTokenCreate"])

\* Token.objects.get_or_create(user=user): the INSERT of the token the
\* SELECT did not find, and the view's 200.  When the token was inserted
\* meanwhile get_or_create catches the IntegrityError and returns that one.
LoginCreateToken(w) ==
    LET r == inflight[w]
    IN  /\ r.pc = "loginTokenCreate"
        /\ users' = [users EXCEPT ![r.pk].token = TRUE]
        /\ Respond(w, r.op, r.pk, "OK")
        /\ UNCHANGED <<boards, nextBoardId, tasks, nextTaskId, comments, nextCommentId, clock>>

\* ---------------------------------------------------------------- boards
\* An optional list field: <<>> when the request does not carry it,
\* <<ids>> when it does.
Supplied(opt) == Len(opt) = 1
ValueOf(opt) == opt[1]

\* BoardCreateInputSerializer.validate_members /
\* BoardUpdateInputSerializer.validate_members
validate_members(value) == value \ Users = {}

\* The title field of the two board input serializers: required unless the
\* update is partial.
TitleFieldValid(data, partial) == data.title = NoTitle => partial

\* Field validation of BoardCreateInputSerializer: the title, and every
\* supplied member id must exist.
BoardInputValid(data, partial) ==
    /\ TitleFieldValid(data, partial)
    /\ (Supplied(data.members) => validate_members(ValueOf(data.members)))

OwnerJoinsMembers(user, data) ==
    {user} \cup (IF Supplied(data.members) THEN ValueOf(data.members) ELSE {})
\* BoardCreateInputSerializer.create: members = validated_data.pop('members', [])
BoardCreateMembers(user, data) ==
    IF Supplied(data.members) THEN ValueOf(data.members) ELSE {}

\* ManyRelatedManager.set(ids) reads the ids the relation holds (old), then
\* removes the rows of those that are not in ids: self.remove(*old_ids),
\* one DELETE, none when there is no such id.
MembersToRemove(r) == r.old \ ValueOf(r.data.members)
\* ... and adds a row for every id that was not among them:
\* self.add(*new_objs), one INSERT that ignores the ids that have a row by
\* now, none when there is no such id.
MembersToAdd(r) == ValueOf(r.data.members) \ r.old

MembersMerged(current, removed, added) == current \cup added
\* What the transaction of set() leaves when it is committed: the relation
\* as the COMMIT finds it (current), without the rows its DELETE removed and
\* with the rows its INSERT added.
members_set(current, removed, added) == (current \ removed) \cup added

\* The statements that write to the database, by the pc of the request that
\* is about to send one or holds a transaction with one: the INSERTs of a
\* registration and of a login, of a board, a task and a comment, the
\* UPDATE and the INSERT of save(), the DELETEs and the COMMIT of delete().
WritingPcs ==
    {"validated", "userCreated", "loginTokenCreate", "boardCreateInsert",
     "boardSave", "boardInsert", "boardDeleteRelated", "boardDeleteCommit",
     "taskInsert", "taskSave", "taskReinsert", "taskDelete", "taskDeleteCommit",
     "commentSave", "commentDelete"}
\* The statements of members.set() that come after its SELECT, inside its
\* transaction.
SetPcs ==
    {"boardMembersWrite", "boardMembersAdd", "boardMembersCreate", "boardMembersCreateAdd"}
\* The request r is about to write or holds a transaction that wrote; a
\* members.set() does when it has a row to remove or to add.
Writing(r) ==
    \/ r.pc \in WritingPcs
    \/ r.pc \in SetPcs /\ (MembersToRemove(r) # {} \/ MembersToAdd(r) # {})
\* Another request than the one of worker w writes.  Where the database
\* locks as a whole (SQLite), the transaction of set() holds a read lock
\* from its SELECT on, and its first write is refused at once ("database is
\* locked", OperationalError) when another connection has started a write.
Busy(w) == \E v \in DOMAIN inflight \ {w} : Writing(inflight[v])

\* The member rows and the task rows another worker has removed in a
\* transaction it has not committed yet, by a Delete Board or by the DELETE
\* of a members.set(): where the database locks by the row (PostgreSQL), a
\* statement that writes one of these rows waits for that transaction to
\* end.
LockedMembers(w, pk) ==
    UNION {IF inflight[v].pc = "boardDeleteCommit" THEN inflight[v].old
           ELSE inflight[v].removed :
                v \in {x \in DOMAIN inflight \ {w} :
                    /\ inflight[x].pk = pk
                    /\ inflight[x].pc \in {"boardDeleteCommit", "boardMembersAdd",
                                          "boardMembersCreateAdd"}}}
LockedTasks(w) ==
    UNION {inflight[v].collected : v \in {x \in DOMAIN inflight \ {w} :
                inflight[x].pc = "boardDeleteCommit"}}

\* POST /api/boards/
BoardCreateCode(user, data) ==
    IF ~IsAuthenticated(user) THEN "NotAuthenticated"
    ELSE IF ~BoardInputValid(data, FALSE) THEN "ValidationError"
    ELSE "Created"

\* BoardListCreateView.create up to its first write: authentication and
\* is_valid().  The worker holds the title and the member ids to be set.
BoardCreate(w, user, data) ==
    LET code == BoardCreateCode(user, data)
    IN  /\ inflight[w].pc = "idle"
        /\ UNCHANGED store
        /\ IF code = "Created"
           THEN GoOn(w, [Idle EXCEPT !.pc = "boardCreateInsert", !.op = "BoardCreate",
                                     !.method = "POST", !.user = user,
                                     !.data = [title |-> data.title,
                                               members |-> <<BoardCreateMembers(user, data)>>]])
           ELSE Respond(w, "BoardCreate", user, code)

\* BoardCreateInputSerializer.create: Board.objects.create(owner=
\* request.user, title=...), the INSERT of the Board row.  The row is in the
\* store, without members, from here on.
BoardCreateInsert(w) ==
    LET r == inflight[w]
        pk == nextBoardId + 1
    IN  /\ r.pc = "boardCreateInsert"
        /\ boards' = boards @@
                (pk :> [title |-> r.data.title, owner |-> r.user, members |-> {}])
        /\ nextBoardId' = pk
        /\ GoOn(w, [r EXCEPT !.pc = "boardInserted", !.pk = pk,
                             !.board = [pk |-> pk, title |-> r.data.title,
                                        owner |-> r.user]])
        /\ UNCHANGED <<users, tasks, nextTaskId, comments, nextCommentId, clock>>

\* members.set(ids), first statement, inside the transaction it opens: the
\* SELECT of the ids the relation of the board holds; the worker goes on to
\* self.remove() at pc.
MembersSelect(w, r, pc) ==
    GoOn(w, [r EXCEPT !.old = members_all(r.board), !.removed = {}, !.pc = pc])

\* members.set(ids): self.remove(*old_ids), the DELETE of the rows read and
\* not wanted; the worker holds the rows it removed, which no other request
\* sees gone before the COMMIT, and goes on to self.add() at pc.  The DELETE
\* waits while another transaction holds one of its rows, or it is refused
\* at once when another request writes ("database is locked"), and the
\* request ends with nothing written.
MembersRemove(w, r, pc) ==
    LET gone == MembersToRemove(r)
    IN  \/ /\ gone \cap LockedMembers(w, r.pk) = {}
           /\ GoOn(w, [r EXCEPT !.removed = gone \cap members_all(r.board), !.pc = pc])
        \/ /\ gone # {}
           /\ Busy(w)
           /\ Respond(w, r.op, r.user, "ServerError")

\* Two members.set() of one board wait for each other: each has removed a
\* row the other is about to add (the database ends one of them: deadlock
\* detected).
MembersDeadlock(w, r) ==
    \E v \in DOMAIN inflight \ {w} :
        /\ inflight[v].pc \in {"boardMembersAdd", "boardMembersCreateAdd"}
        /\ inflight[v].pk = r.pk
        /\ MembersToAdd(r) \cap inflight[v].removed # {}
        /\ MembersToAdd(inflight[v]) \cap r.removed # {}

\* members.set(ids): self.add(*new_objs), the INSERT of the ids wanted and
\* not read, and the COMMIT of the transaction.  The answer is "written",
\* or "failed" with nothing written: a row for a board that was deleted
\* meanwhile breaks its foreign key (IntegrityError); the INSERT, when it
\* is the first write of the transaction, is refused at once when another
\* request writes ("database is locked"); and of two transactions that
\* wait for each other one is ended.  The INSERT waits while another
\* transaction holds one of its rows.
MembersWritten(w, r) ==
    LET new == MembersToAdd(r)
        here == r.pk \in DOMAIN boards
        written == [code |-> "written",
                    boards |-> IF here
                               THEN [boards EXCEPT ![r.pk].members =
                                        members_set(@, r.removed, new)]
                               ELSE boards]
        failed == [code |-> "failed", boards |-> boards]
    IN  {out \in {written, failed} :
            IF out.code = "written"
            THEN new \cap LockedMembers(w, r.pk) = {} /\ (here \/ new = {})
            ELSE \/ new # {} /\ ~here
                 \/ new # {} /\ MembersToRemove(r) = {} /\ Busy(w)
                 \/ MembersDeadlock(w, r)}

\* BoardCreateInputSerializer.create: board.members.set(members), its SELECT.
BoardCreateMembersSelect(w) ==
    LET r == inflight[w]
    IN  /\ r.pc = "boardInserted"
        /\ UNCHANGED store
        /\ MembersSelect(w, r, "boardMembersCreate")

\* BoardCreateInputSerializer.create: board.members.set(members), its
\* self.remove().
BoardCreateMembersRemove(w) ==
    LET r == inflight[w]
    IN  /\ r.pc = "boardMembersCreate"
        /\ UNCHANGED store
        /\ MembersRemove(w, r, "boardMembersCreateAdd")

\* BoardCreateInputSerializer.create: board.members.set(members), its
\* self.add() and COMMIT, and the view's 201.
BoardCreateMembersSet(w) ==
    LET r == inflight[w]
    IN  /\ r.pc = "boardMembersCreateAdd"
        /\ \E out \in MembersWritten(w, r) :
                /\ boards' = out.boards
                /\ Respond(w, r.op, r.user,
                           IF out.code = "written" THEN "Created" ELSE "ServerError")
        /\ UNCHANGED <<users, nextBoardId, tasks, nextTaskId, comments, nextCommentId, clock>>

\* BoardDetailView.get_permissions: the object permission of the method.
BoardObjectPermission(method, user, obj, relation) ==
    IF method = "DELETE"
    THEN (IF IsBoardOwner(user, obj) THEN "Allowed" ELSE "Forbidden")
    ELSE IsBoardMemberOrOwner(user, obj, relation)

\* check_object_permissions in get_object() of BoardDetailView and what the
\* handler turns to next: the members query when the verdict takes it, 403,
\* the rendering of a read, the delete, or serializer.is_valid() of an update
\* (400 when the title is missing from a PUT) and its first write.
BoardPermitted(w, r, relation) ==
    LET verdict == BoardObjectPermission(r.method, r.user, r.board, relation)
    IN  IF verdict = "Query" THEN GoOn(w, [r EXCEPT !.pc = "boardMembers"])
        ELSE IF verdict = "Forbidden" THEN Respond(w, r.op, r.user, "Forbidden")
        ELSE IF r.method = "GET" THEN GoOn(w, [r EXCEPT !.pc = "boardRender"])
        ELSE IF r.method = "DELETE" THEN GoOn(w, [r EXCEPT !.pc = "boardDelete"])
        ELSE IF ~TitleFieldValid(r.data, r.method = "PATCH")
             THEN Respond(w, r.op, r.user, "ValidationError")
        ELSE GoOn(w, [r EXCEPT !.pc = IF Supplied(r.data.members)
                                      THEN "boardMembersSet" ELSE "boardSave"])

\* BoardDetailView: authentication, then get_object(): the SELECT of the
\* Board row (404) and the object permission as far as the loaded row tells.
BoardDetailBegin(w, op, method, user, pk, data) ==
    /\ inflight[w].pc = "idle"
    /\ UNCHANGED store
    /\ IF ~IsAuthenticated(user) THEN Respond(w, op, user, "NotAuthenticated")
       ELSE IF pk \notin DOMAIN boards THEN Respond(w, op, user, "NotFound")
       ELSE BoardPermitted(w, [Idle EXCEPT !.op = op, !.method = method, !.user = user,
                                           !.pk = pk, !.data = data,
                                           !.board = BoardInstance(pk)], <<>>)

\* GET /api/boards/{pk}/
BoardRetrieve(w, user, pk) ==
    BoardDetailBegin(w, "BoardRetrieve", "GET", user, pk, NoBoardData)

\* PATCH (partial) and PUT /api/boards/{pk}/ : BoardDetailView.update
BoardUpdate(w, method, user, pk, data) ==
    BoardDetailBegin(w, "BoardUpdate", method, user, pk, data)

\* DELETE /api/boards/{pk}/
BoardDestroy(w, user, pk) ==
    BoardDetailBegin(w, "BoardDestroy", "DELETE", user, pk, NoBoardData)

\* IsBoardMemberOrOwner.has_object_permission: "request.user in
\* obj.members.all()", the query on the members of the board loaded before.
BoardPermissionMembers(w) ==
    LET r == inflight[w]
    IN  /\ r.pc = "boardMembers"
        /\ UNCHANGED store
        /\ BoardPermitted(w, r, <<members_all(r.board)>>)

\* The tasks with the assignee and the reviewer cleared wherever that user
\* is neither the owner nor one of the members of the task's board.
Unassigned(bs) ==
    LET on(u, b) == b \in DOMAIN bs /\ (u = bs[b].owner \/ u \in bs[b].members)
    IN  [t \in DOMAIN tasks |->
            [tasks[t] EXCEPT
                !.assignee = IF on(@, tasks[t].board) THEN @ ELSE Null,
                !.reviewer = IF on(@, tasks[t].board) THEN @ ELSE Null]]
\* serializer.is_valid() of a board update: validate_members looks the
\* supplied ids up among the users (400); then BoardUpdateInputSerializer
\* .update: "if members is not None: instance.members.set(members)", its
\* SELECT.
BoardMembersSelect(w) ==
    LET r == inflight[w]
    IN  /\ r.pc = "boardMembersSet"
        /\ UNCHANGED store
        /\ IF ~validate_members(ValueOf(r.data.members))
           THEN Respond(w, r.op, r.user, "ValidationError")
           ELSE MembersSelect(w, r, "boardMembersWrite")

\* BoardUpdateInputSerializer.update: instance.members.set(members), its
\* self.remove().
BoardMembersRemove(w) ==
    LET r == inflight[w]
    IN  /\ r.pc = "boardMembersWrite"
        /\ UNCHANGED store
        /\ MembersRemove(w, r, "boardMembersAdd")

BoardMembersSetUnassigning(w) ==
    LET r == inflight[w]
    IN  /\ r.pc = "boardMembersAdd"
        /\ \E out \in MembersWritten(w, r) :
                /\ boards' = out.boards
                /\ tasks' = Unassigned(out.boards)
                /\ IF out.code = "written" THEN GoOn(w, [r EXCEPT !.pc = "boardSave"])
                   ELSE Respond(w, r.op, r.user, "ServerError")
        /\ UNCHANGED <<users, nextBoardId, nextTaskId, comments, nextCommentId, clock>>
\* BoardUpdateInputSerializer.update: instance.members.set(members), its
\* self.add() and COMMIT -- in the store at once, before instance.save().
BoardMembersSet(w) ==
    LET r == inflight[w]
    IN  /\ r.pc = "boardMembersAdd"
        /\ \E out \in MembersWritten(w, r) :
                /\ boards' = out.boards
                /\ IF out.code = "written" THEN GoOn(w, [r EXCEPT !.pc = "boardSave"])
                   ELSE Respond(w, r.op, r.user, "ServerError")
        /\ UNCHANGED <<users, nextBoardId, tasks, nextTaskId, comments, nextCommentId, clock>>

\* The row instance.save() writes: every column of the instance as the
\* worker holds it, the title replaced if the request carries one.
SavedRow(r) ==
    [title |-> IF r.data.title # NoTitle THEN r.data.title ELSE r.board.title,
     owner |-> r.board.owner]

\* BoardUpdateInputSerializer.update: instance.save(), the UPDATE of the
\* row's columns, and the view's 200; when the UPDATE finds that the row was
\* deleted meanwhile, save() goes on to insert it.
BoardSave(w) ==
    LET r == inflight[w]
        row == SavedRow(r)
    IN  /\ r.pc = "boardSave"
        /\ IF r.pk \in DOMAIN boards
           THEN /\ boards' = [boards EXCEPT ![r.pk].title = row.title, ![r.pk].owner = row.owner]
                /\ Respond(w, r.op, r.user, "OK")
           ELSE /\ UNCHANGED boards
                /\ GoOn(w, [r EXCEPT !.pc = "boardInsert"])
        /\ UNCHANGED <<users, nextBoardId, tasks, nextTaskId, comments, nextCommentId, clock>>

\* instance.save() of a board that was deleted meanwhile: the INSERT of the
\* row under its old primary key, without members, and the view's 200; when
\* another save() inserted the row first, the primary key is taken
\* (IntegrityError).
BoardInsert(w) ==
    LET r == inflight[w]
        row == SavedRow(r)
    IN  /\ r.pc = "boardInsert"
        /\ IF r.pk \in DOMAIN boards
           THEN /\ UNCHANGED boards
                /\ Respond(w, r.op, r.user, "ServerError")
           ELSE /\ boards' = boards @@
                        (r.pk :> [title |-> row.title, owner |-> row.owner, members |-> {}])
                /\ Respond(w, r.op, r.user, "OK")
        /\ UNCHANGED <<users, nextBoardId, tasks, nextTaskId, comments, nextCommentId, clock>>

\* What a read answers: the title of the instance get_object() loaded and
\* the members BoardDetailGetSerializer reads when it renders it.
BoardShown(w) ==
    [title |-> inflight[w].board.title, members |-> members_all(inflight[w].board)]

\* RetrieveModelMixin.retrieve: Response(BoardDetailGetSerializer(instance).data)
BoardRetrieveRespond(w) ==
    LET r == inflight[w]
    IN  /\ r.pc = "boardRender"
        /\ Respond(w, r.op, r.user, "OK")
        /\ UNCHANGED store

\* Task.board: on_delete=CASCADE
TasksOfBoard(pk) == {t \in DOMAIN tasks : tasks[t].board = pk}
NoCommentsOfTasks(ts) == {}
\* TaskComment.task: on_delete=CASCADE
CommentsOfTasks(ts) == {c \in DOMAIN comments : comments[c].task \in ts}

\* DestroyModelMixin.destroy: instance.delete().  Model.delete() first
\* collects what the cascade takes along: the SELECT of the tasks of the
\* board (their comments and the member rows are deleted by condition and
\* not read).
BoardCollect(w) ==
    LET r == inflight[w]
    IN  /\ r.pc = "boardDelete"
        /\ UNCHANGED store
        /\ GoOn(w, [r EXCEPT !.collected = TasksOfBoard(r.pk), !.pc = "boardDeleteRelated"])

\* instance.delete(): the transaction Model.delete() opens, up to its last
\* statement: the DELETE of the member rows of the board, of the comments on
\* the collected tasks and of the collected tasks.  Until the COMMIT no
\* other request sees these rows gone; the worker holds what it removed.
\* The DELETE waits while a members.set() holds one of the member rows.
BoardDeleteRelated(w) ==
    LET r == inflight[w]
    IN  /\ r.pc = "boardDeleteRelated"
        /\ members_all(r.board) \cap LockedMembers(w, r.pk) = {}
        /\ UNCHANGED store
        /\ GoOn(w, [r EXCEPT !.old = members_all(r.board),
                             !.collected = r.collected \cap DOMAIN tasks,
                             !.mark = nextCommentId,
                             !.pc = "boardDeleteCommit"])

\* instance.delete(): the DELETE of the board row and the COMMIT, and the
\* view's 204; a row that is gone by now is not missed.  The foreign keys are
\* checked at the COMMIT: a task of the board that was not collected, a
\* comment or a member row that was inserted after the DELETE of the others,
\* still names a row that is deleted, and the transaction is rolled back
\* (IntegrityError).
BoardDelete(w) ==
    LET r == inflight[w]
        gone == r.collected \cap DOMAIN tasks
        left == \/ TasksOfBoard(r.pk) \ r.collected # {}
                \/ {c \in CommentsOfTasks(r.collected) : c > r.mark} # {}
                \/ members_all(r.board) \ r.old # {}
    IN  /\ r.pc = "boardDeleteCommit"
        /\ IF left
           THEN /\ UNCHANGED <<boards, tasks, comments>>
                /\ Respond(w, r.op, r.user, "ServerError")
           ELSE /\ boards' = Restrict(boards, DOMAIN boards \ {r.pk})
                /\ tasks' = Restrict(tasks, DOMAIN tasks \ gone)
                /\ comments' = Restrict(comments, DOMAIN comments \ CommentsOfTasks(gone))
                /\ Respond(w, r.op, r.user, "NoContent")
        /\ UNCHANGED <<users, nextBoardId, nextTaskId, nextCommentId, clock>>

\* ----------------------------------------------------------------- tasks
\* A task request body: [board, title, status, priority, assignee, reviewer,
\* due_date], board / assignee / reviewer an id, Null or Absent; title,
\* status and priority a string or NoTitle / NoValue; due_date a date
\* written as the number yyyymmdd, Null or Absent.

\* PrimaryKeyRelatedField(queryset=User.objects.all(), required=False,
\* allow_null=True): assignee_id / reviewer_id
UserFieldValid(v) == v = Absent \/ v = Null \/ v \in Users

AnyStatusAccepted(v) == TRUE
\* TaskSerializer.validate_status / TaskUpdateSerializer.validate_status
validate_status(v) == v \in STATUS_CHOICES
\* TaskSerializer.validate_priority / TaskUpdateSerializer.validate_priority
validate_priority(v) == v \in PRIORITY_CHOICES

\* datetime.date(y, m, d): the days of month m of year y.
DaysInMonth(y, m) ==
    IF m \in {4, 6, 9, 11} THEN 30
    ELSE IF m # 2 THEN 31
    ELSE IF (y % 4 = 0 /\ y % 100 # 0) \/ y % 400 = 0 THEN 29
    ELSE 28
\* DateField(required=False, allow_null=True) of Task.due_date: a date that
\* exists, null, or left out.
DateFieldValid(v) ==
    \/ v = Absent \/ v = Null
    \/ LET y == v \div 10000
           m == (v \div 100) % 100
           d == v % 100
       IN  /\ y \in 1..9999 /\ m \in 1..12
           /\ d >= 1 /\ d <= DaysInMonth(y, m)

\* The per-field checks both task serializers share and that read no table.
TaskFieldsValid(data) ==
    /\ (data.status # NoValue => validate_status(data.status))
    /\ (data.priority # NoValue => validate_priority(data.priority))
    /\ DateFieldValid(data.due_date)

\* assignee_id and reviewer_id: each id the request carries is looked up
\* among the users.
RelatedUsersValid(data) ==
    UserFieldValid(data.assignee) /\ UserFieldValid(data.reviewer)

\* "if assignee:" / "if reviewer:" -- attrs.get() of a field that is left
\* out or null is None.
Assigned(v) == v # Absent /\ v # Null

MayAssignAnyUser(v, board) == TRUE
\* "if assignee not in board.members.all() and assignee != board.owner:
\* raise"; board is [owner, members], the members as the query returns them.
MayBeAssigned(v, board) ==
    v \in Users => (v \in board.members \/ v = board.owner)

AnyBoardAccepted(instance, value) == TRUE
\* TaskSerializer.validate_board: instance is <<>> on create, <<task>> on update.
validate_board(instance, value) ==
    ~(Len(instance) = 1 /\ instance[1].board # value)

AnyInitialDataAccepted(data) == TRUE
\* TaskUpdateSerializer.validate: "if 'board' in self.initial_data: raise"
NoBoardInInitialData(data) == data.board = Absent

\* TaskListCreateView.permission_classes for POST and GET /api/tasks/ :
\* IsAuthenticated, then IsBoardMemberForTaskCreate.has_permission up to the
\* SELECT of the board the body names (403 without one, 404).
TaskCollectionCodeBoardFirst(user, data) ==
    IF data.board = Absent \/ data.board = 0 THEN "Forbidden"
    ELSE IF data.board \notin DOMAIN boards THEN "NotFound"
    ELSE IF ~IsAuthenticated(user) THEN "NotAuthenticated"
    ELSE "Found"
TaskCollectionCode(user, data) ==
    IF ~IsAuthenticated(user) THEN "NotAuthenticated"
    ELSE IF data.board = Absent \/ data.board = 0 THEN "Forbidden"
    ELSE IF data.board \notin DOMAIN boards THEN "NotFound"
    ELSE "Found"

\* IsBoardMemberForTaskCreate.has_permission from the loaded board on, and
\* what the view turns to next: the list's query, or is_valid() of a create.
TaskCollectionPermitted(w, r, relation) ==
    LET verdict == IsBoardMemberForTaskCreate(r.user, r.board, relation)
    IN  IF verdict = "Query" THEN GoOn(w, [r EXCEPT !.pc = "taskCollectionMembers"])
        ELSE IF verdict = "Forbidden" THEN Respond(w, r.op, r.user, "Forbidden")
        ELSE GoOn(w, [r EXCEPT !.pc = IF r.method = "GET"
                                      THEN "taskList" ELSE "taskValidateBoard"])

\* TaskListCreateView up to the first statement after the SELECT of the board.
TaskCollectionBegin(w, op, method, user, data, qboard) ==
    LET code == TaskCollectionCode(user, data)
    IN  /\ inflight[w].pc = "idle"
        /\ UNCHANGED store
        /\ IF code # "Found" THEN Respond(w, op, user, code)
           ELSE TaskCollectionPermitted(w,
                    [Idle EXCEPT !.op = op, !.method = method, !.user = user,
                                 !.q = qboard, !.body = data,
                                 !.board = BoardInstance(data.board)], <<>>)

\* POST /api/tasks/
TaskCreate(w, user, data) ==
    TaskCollectionBegin(w, "TaskCreate", "POST", user, data, Absent)

\* IsBoardMemberForTaskCreate.has_permission: "request.user in
\* board.members.all()"
TaskCollectionMembers(w) ==
    LET r == inflight[w]
    IN  /\ r.pc = "taskCollectionMembers"
        /\ UNCHANGED store
        /\ TaskCollectionPermitted(w, r, <<members_all(r.board)>>)

\* The statement of a task create or update that comes after the ones that
\* validate the body: the INSERT of a create, the save() of an update.
WritePc(r) == IF r.method = "POST" THEN "taskInsert" ELSE "taskSave"
\* The statement that comes after the checks of the single fields:
\* validate() reads the members of the board for the assignee, then for the
\* reviewer, when the body names one.
AfterFields(r) ==
    IF Assigned(r.body.assignee) THEN "taskValidateAssignee"
    ELSE IF Assigned(r.body.reviewer) THEN "taskValidateReviewer"
    ELSE WritePc(r)

\* TaskSerializer.is_valid() of a create or a PUT: the board field is looked
\* up among the boards (the SELECT), validate_board compares it with the
\* instance's, the title is required, status, priority and due date are
\* checked; 400 if any of them fails.
TaskValidateBoard(w) ==
    LET r == inflight[w]
        d == r.body
        instance == IF r.method = "PUT" THEN <<r.task>> ELSE <<>>
    IN  /\ r.pc = "taskValidateBoard"
        /\ UNCHANGED store
        /\ IF /\ d.board \in DOMAIN boards
              /\ validate_board(instance, d.board)
              /\ d.title # NoTitle
              /\ TaskFieldsValid(d)
           THEN GoOn(w, [r EXCEPT !.board = BoardInstance(d.board), !.pc = AfterFields(r)])
           ELSE Respond(w, r.op, r.user, "ValidationError")

\* validate() of both task serializers: "assignee not in board.members.all()
\* and assignee != board.owner", the query on the members of the board the
\* serializer holds; before it, assignee_id and reviewer_id were looked up
\* among the users.  400 if a lookup or the check fails.
TaskValidateAssignee(w) ==
    LET r == inflight[w]
        d == r.body
        board == [owner |-> r.board.owner, members |-> members_all(r.board)]
    IN  /\ r.pc = "taskValidateAssignee"
        /\ UNCHANGED store
        /\ IF RelatedUsersValid(d) /\ MayBeAssigned(d.assignee, board)
           THEN GoOn(w, [r EXCEPT !.pc = IF Assigned(d.reviewer)
                                         THEN "taskValidateReviewer" ELSE WritePc(r)])
           ELSE Respond(w, r.op, r.user, "ValidationError")

\* validate(): "reviewer not in board.members.all() and reviewer !=
\* board.owner", a query of its own.
TaskValidateReviewer(w) ==
    LET r == inflight[w]
        d == r.body
        board == [owner |-> r.board.owner, members |-> members_all(r.board)]
    IN  /\ r.pc = "taskValidateReviewer"
        /\ UNCHANGED store
        /\ IF RelatedUsersValid(d) /\ MayBeAssigned(d.reviewer, board)
           THEN GoOn(w, [r EXCEPT !.pc = WritePc(r)])
           ELSE Respond(w, r.op, r.user, "ValidationError")

\* TaskSerializer.create with TaskListCreateView.perform_create
NewTask(user, data) ==
    [board |-> data.board,
     title |-> data.title,
     status |-> IF data.status = NoValue THEN DefaultStatus ELSE data.status,
     priority |-> IF data.priority = NoValue THEN DefaultPriority ELSE data.priority,
     assignee |-> IF data.assignee = Absent THEN Null ELSE data.assignee,
     reviewer |-> IF data.reviewer = Absent THEN Null ELSE data.reviewer,
     due_date |-> IF data.due_date = Absent THEN Null ELSE data.due_date,
     creator |-> user]

\* perform_create: serializer.save(creator=request.user), the INSERT of the
\* Task row, and the view's 201.  The row names its board: when that was
\* deleted meanwhile the foreign key fails (IntegrityError).
TaskInsert(w) ==
    LET r == inflight[w]
        pk == nextTaskId + 1
    IN  /\ r.pc = "taskInsert"
        /\ IF r.body.board \in DOMAIN boards
           THEN /\ tasks' = tasks @@ (pk :> NewTask(r.user, r.body))
                /\ nextTaskId' = pk
                /\ Respond(w, r.op, r.user, "Created")
           ELSE /\ UNCHANGED <<tasks, nextTaskId>>
                /\ Respond(w, r.op, r.user, "ServerError")
        /\ UNCHANGED <<users, boards, nextBoardId, comments, nextCommentId, clock>>

\* TaskDetailView.get_queryset + get_object: the ?board= filter.
TaskVisible(pk, qboard) ==
    /\ pk \in DOMAIN tasks
    /\ (qboard # Absent => tasks[pk].board = qboard)

\* TaskDetailView up to its first SELECT of the task.  For GET / PUT / PATCH
\* that is Task.objects.get(pk) of IsTaskBoardMemberOrOwner.has_permission
\* (404); DELETE has no such permission and starts with get_object(), the
\* SELECT through the ?board= filter (404).
TaskDetailBegin(w, op, method, user, pk, qboard, data) ==
    LET r == [Idle EXCEPT !.op = op, !.method = method, !.user = user, !.pk = pk,
                          !.q = qboard, !.body = data]
    IN  /\ inflight[w].pc = "idle"
        /\ UNCHANGED store
        /\ IF ~IsAuthenticated(user) THEN Respond(w, op, user, "NotAuthenticated")
           ELSE IF method = "DELETE"
           THEN IF ~TaskVisible(pk, qboard) THEN Respond(w, op, user, "NotFound")
                ELSE GoOn(w, [r EXCEPT !.task = tasks[pk], !.pc = "taskObjectBoard"])
           ELSE IF pk \notin DOMAIN tasks THEN Respond(w, op, user, "NotFound")
           ELSE GoOn(w, [r EXCEPT !.task = tasks[pk], !.pc = "taskPermissionBoard"])

\* GET /api/tasks/{pk}/
TaskRetrieve(w, user, pk, qboard) ==
    TaskDetailBegin(w, "TaskRetrieve", "GET", user, pk, qboard, NoData)

\* PATCH and PUT /api/tasks/{pk}/ : TaskDetailView.update
TaskUpdate(w, method, user, pk, qboard, data) ==
    TaskDetailBegin(w, "TaskUpdate", method, user, pk, qboard, data)

\* DELETE /api/tasks/{pk}/
TaskDestroy(w, user, pk, qboard) ==
    TaskDetailBegin(w, "TaskDestroy", "DELETE", user, pk, qboard, NoData)

\* IsTaskBoardMemberOrOwner.has_permission from the loaded board on: the
\* members query when the verdict takes it, 403, or get_object().
TaskPermitted(w, r, relation) ==
    LET verdict == IsTaskBoardMemberOrOwner(r.user, r.board, relation)
    IN  IF verdict = "Query" THEN GoOn(w, [r EXCEPT !.pc = "taskPermissionMembers"])
        ELSE IF verdict = "Forbidden" THEN Respond(w, r.op, r.user, "Forbidden")
        ELSE GoOn(w, [r EXCEPT !.pc = "taskGetObject"])

\* IsTaskBoardMemberOrOwner.has_permission: "board = task.board", the
\* SELECT of the board the loaded task names; Board.DoesNotExist, which
\* nothing catches, when the board was deleted meanwhile.
TaskPermissionBoard(w) ==
    LET r == inflight[w]
    IN  /\ r.pc = "taskPermissionBoard"
        /\ UNCHANGED store
        /\ IF r.task.board \notin DOMAIN boards
           THEN Respond(w, r.op, r.user, "ServerError")
           ELSE TaskPermitted(w, [r EXCEPT !.board = BoardInstance(r.task.board)], <<>>)

\* IsTaskBoardMemberOrOwner.has_permission: "request.user in
\* board.members.all()"
TaskPermissionMembers(w) ==
    LET r == inflight[w]
    IN  /\ r.pc = "taskPermissionMembers"
        /\ UNCHANGED store
        /\ TaskPermitted(w, r, <<members_all(r.board)>>)

\* get_object() of TaskDetailView for GET / PUT / PATCH: the SELECT of the
\* task through the ?board= filter (404); the instance the rest of the
\* request works on.
TaskGetObject(w) ==
    LET r == inflight[w]
    IN  /\ r.pc = "taskGetObject"
        /\ UNCHANGED store
        /\ IF ~TaskVisible(r.pk, r.q) THEN Respond(w, r.op, r.user, "NotFound")
           ELSE GoOn(w, [r EXCEPT !.task = tasks[r.pk], !.pc = "taskObjectBoard"])

\* is_valid() of a task update, as far as it reads no table: PUT goes on to
\* the board field of TaskSerializer; PATCH checks status, priority and due
\* date and that the body carries no board (400), then goes on to validate().
TaskUpdateValidation(w, r) ==
    IF r.method = "PUT" THEN GoOn(w, [r EXCEPT !.pc = "taskValidateBoard"])
    ELSE IF TaskFieldsValid(r.body) /\ NoBoardInInitialData(r.body)
         THEN GoOn(w, [r EXCEPT !.pc = AfterFields(r)])
    ELSE Respond(w, r.op, r.user, "ValidationError")

\* get_permissions of TaskDetailView and the permission of the comment
\* views: the object permission on a task whose board is loaded.
TaskObjectPermission(r, relation) ==
    IF r.op = "TaskDestroy"
    THEN (IF IsTaskCreatorOrBoardOwner(r.user, r.task, r.board)
          THEN "Allowed" ELSE "Forbidden")
    ELSE IsTaskBoardMemberOrOwner(r.user, r.board, relation)

\* check_object_permissions on a task and what the handler turns to next:
\* the members query when the verdict takes it, 403, the 200 of a read, the
\* delete, the INSERT or the query of a comment request, and for an update
\* the second check_object_permissions of TaskDetailView.update, which asks
\* for the members again unless the sender is the owner.
TaskObjectPermitted(w, r, relation) ==
    LET verdict == TaskObjectPermission(r, relation)
    IN  IF verdict = "Query" THEN GoOn(w, [r EXCEPT !.pc = "taskObjectMembers"])
        ELSE IF verdict = "Forbidden" THEN Respond(w, r.op, r.user, "Forbidden")
        ELSE IF r.op = "TaskRetrieve" THEN Respond(w, r.op, r.user, "OK")
        ELSE IF r.op = "TaskDestroy" THEN GoOn(w, [r EXCEPT !.pc = "taskDelete"])
        ELSE IF r.op = "CommentCreate" THEN GoOn(w, [r EXCEPT !.pc = "commentInsert"])
        ELSE IF r.op = "CommentList" THEN GoOn(w, [r EXCEPT !.pc = "commentList"])
        ELSE IF relation # <<>> THEN GoOn(w, [r EXCEPT !.pc = "taskRecheckMembers"])
        ELSE TaskUpdateValidation(w, r)

\* has_object_permission of IsTaskBoardMemberOrOwner and of
\* IsTaskCreatorOrBoardOwner: "board = obj.board", the SELECT of the board
\* the loaded task names; Board.DoesNotExist when it was deleted meanwhile.
TaskObjectBoard(w) ==
    LET r == inflight[w]
    IN  /\ r.pc = "taskObjectBoard"
        /\ UNCHANGED store
        /\ IF r.task.board \notin DOMAIN boards
           THEN Respond(w, r.op, r.user, "ServerError")
           ELSE TaskObjectPermitted(w, [r EXCEPT !.board = BoardInstance(r.task.board)], <<>>)

\* IsTaskBoardMemberOrOwner.has_object_permission: "request.user in
\* board.members.all()"
TaskObjectMembers(w) ==
    LET r == inflight[w]
    IN  /\ r.pc = "taskObjectMembers"
        /\ UNCHANGED store
        /\ TaskObjectPermitted(w, r, <<members_all(r.board)>>)

\* TaskDetailView.update: self.check_object_permissions(request, instance)
\* after get_object() -- the members query once more (403), then is_valid().
TaskRecheckMembers(w) ==
    LET r == inflight[w]
    IN  /\ r.pc = "taskRecheckMembers"
        /\ UNCHANGED store
        /\ IF IsTaskBoardMemberOrOwner(r.user, r.board, <<members_all(r.board)>>) = "Allowed"
           THEN TaskUpdateValidation(w, r)
           ELSE Respond(w, r.op, r.user, "Forbidden")

\* ModelSerializer.update: every validated field of the request is set on
\* the instance.  TaskUpdateSerializer has no board field; TaskSerializer
\* sets it.
TaskSerializer_update(method, instance, data) ==
    [instance EXCEPT
        !.board = IF method = "PATCH" THEN @ ELSE data.board,
        !.title = IF data.title # NoTitle THEN data.title ELSE @,
        !.status = IF data.status # NoValue THEN data.status ELSE @,
        !.priority = IF data.priority # NoValue THEN data.priority ELSE @,
        !.assignee = IF data.assignee # Absent THEN data.assignee ELSE @,
        !.reviewer = IF data.reviewer # Absent THEN data.reviewer ELSE @,
        !.due_date = IF data.due_date # Absent THEN data.due_date ELSE @]

\* perform_update: serializer.save() -- instance.save() writes every column
\* of the instance the request loaded, with the request's fields set: the
\* UPDATE of the row, and the view's 200; when the UPDATE finds that the row
\* was deleted meanwhile, save() goes on to insert it.
TaskSave(w) ==
    LET r == inflight[w]
        row == TaskSerializer_update(r.method, r.task, r.body)
    IN  /\ r.pc = "taskSave"
        /\ IF r.pk \in DOMAIN tasks
           THEN /\ tasks' = [tasks EXCEPT ![r.pk] = row]
                /\ Respond(w, r.op, r.user, "OK")
           ELSE /\ UNCHANGED tasks
                /\ GoOn(w, [r EXCEPT !.pc = "taskReinsert"])
        /\ UNCHANGED <<users, boards, nextBoardId, nextTaskId, comments, nextCommentId, clock>>

\* instance.save() of a task that was deleted meanwhile: the INSERT of the
\* row under its old primary key, and the view's 200.  It fails when another
\* save() inserted the row first (the primary key is taken) and when the
\* board is gone too (foreign key): IntegrityError.  It waits while a Delete
\* Board that removed the row has not committed.
TaskReinsert(w) ==
    LET r == inflight[w]
        row == TaskSerializer_update(r.method, r.task, r.body)
    IN  /\ r.pc = "taskReinsert"
        /\ r.pk \notin LockedTasks(w)
        /\ IF r.pk \in DOMAIN tasks \/ row.board \notin DOMAIN boards
           THEN /\ UNCHANGED tasks
                /\ Respond(w, r.op, r.user, "ServerError")
           ELSE /\ tasks' = tasks @@ (r.pk :> row)
                /\ Respond(w, r.op, r.user, "OK")
        /\ UNCHANGED <<users, boards, nextBoardId, nextTaskId, comments, nextCommentId, clock>>

\* DestroyModelMixin.destroy: instance.delete() -- the transaction
\* Model.delete() opens, its first statement: the DELETE of the comments on
\* the task.  Until the COMMIT no other request sees them gone; a comment
\* that is inserted from here on is not among them.
TaskDeleteComments(w) ==
    LET r == inflight[w]
    IN  /\ r.pc = "taskDelete"
        /\ UNCHANGED store
        /\ GoOn(w, [r EXCEPT !.mark = nextCommentId, !.pc = "taskDeleteCommit"])

\* instance.delete(): the DELETE of the task row and the COMMIT, and the
\* view's 204; a row that is gone by now is not missed.  The foreign keys are
\* checked at the COMMIT: a comment on the task that was inserted after the
\* DELETE of the others still names the task, and the transaction is rolled
\* back (IntegrityError).
TaskDelete(w) ==
    LET r == inflight[w]
        left == {c \in CommentsOfTasks({r.pk}) : c > r.mark}
    IN  /\ r.pc = "taskDeleteCommit"
        /\ IF left # {}
           THEN /\ UNCHANGED <<tasks, comments>>
                /\ Respond(w, r.op, r.user, "ServerError")
           ELSE /\ tasks' = Restrict(tasks, DOMAIN tasks \ {r.pk})
                /\ comments' = Restrict(comments, DOMAIN comments \ CommentsOfTasks({r.pk}))
                /\ Respond(w, r.op, r.user, "NoContent")
        /\ UNCHANGED <<users, boards, nextBoardId, nextTaskId, nextCommentId, clock>>

\* -------------------------------------------------------------- comments
\* The comment routes of a task up to the SELECT of the task.  The view's
\* has_permission reads kwargs['pk'], which these routes do not have, and
\* lets every request in.  A create validates its serializer first
\* (CreateModelMixin.create, 400); perform_create / get_queryset then
\* resolve the task (404) and go on to check the object permission on it.
CommentBegin(w, op, method, user, task_id, content) ==
    /\ inflight[w].pc = "idle"
    /\ UNCHANGED store
    /\ IF ~IsAuthenticated(user) THEN Respond(w, op, user, "NotAuthenticated")
       ELSE IF method = "POST" /\ content = NoValue
            THEN Respond(w, op, user, "ValidationError")
       ELSE IF task_id \notin DOMAIN tasks THEN Respond(w, op, user, "NotFound")
       ELSE GoOn(w, [Idle EXCEPT !.op = op, !.method = method, !.user = user,
                                 !.pk = task_id, !.content = content,
                                 !.task = tasks[task_id], !.pc = "taskObjectBoard"])

\* POST /api/tasks/{task_id}/comments/
CommentCreate(w, user, task_id, content) ==
    CommentBegin(w, "CommentCreate", "POST", user, task_id, content)

\* perform_create: serializer.save(author=request.user, task=task) --
\* created_at is auto_now_add: save() reads the clock before it sends the
\* INSERT, and no two readings are the same.
CommentCreatedAt(w) ==
    LET r == inflight[w]
    IN  /\ r.pc = "commentInsert"
        /\ clock' = clock + 1
        /\ GoOn(w, [r EXCEPT !.now = clock + 1, !.pc = "commentSave"])
        /\ UNCHANGED <<users, boards, nextBoardId, tasks, nextTaskId, comments, nextCommentId>>

\* serializer.save(author=request.user, task=task): the INSERT of the
\* comment, and the view's 201.  The row names its task: when that was
\* deleted meanwhile the foreign key fails (IntegrityError).
CommentInsert(w) ==
    LET r == inflight[w]
        pk == nextCommentId + 1
    IN  /\ r.pc = "commentSave"
        /\ IF r.pk \in DOMAIN tasks
           THEN /\ comments' = comments @@
                        (pk :> [task |-> r.pk, author |-> r.user,
                                content |-> r.content, created_at |-> r.now])
                /\ nextCommentId' = pk
                /\ Respond(w, r.op, r.user, "Created")
           ELSE /\ UNCHANGED <<comments, nextCommentId>>
                /\ Respond(w, r.op, r.user, "ServerError")
        /\ UNCHANGED <<users, boards, nextBoardId, tasks, nextTaskId, clock>>

\* DELETE /api/tasks/{task_id}/comments/{comment_id}/ :
\* TaskCommentDestroyView.get_object, the SELECT of the comment of that task
\* (404) and IsCommentAuthor on it (403).
CommentDestroy(w, user, task_id, comment_id) ==
    /\ inflight[w].pc = "idle"
    /\ UNCHANGED store
    /\ IF ~IsAuthenticated(user) THEN Respond(w, "CommentDestroy", user, "NotAuthenticated")
       ELSE IF ~(comment_id \in DOMAIN comments /\ comments[comment_id].task = task_id)
            THEN Respond(w, "CommentDestroy", user, "NotFound")
       ELSE IF ~IsCommentAuthor(user, comments[comment_id])
            THEN Respond(w, "CommentDestroy", user, "Forbidden")
       ELSE GoOn(w, [Idle EXCEPT !.op = "CommentDestroy", !.method = "DELETE",
                                 !.user = user, !.pk = comment_id, !.pc = "commentDelete"])

\* DestroyModelMixin.destroy: instance.delete() of the comment, and the
\* view's 204; a row that is gone by now is not missed.
CommentDelete(w) ==
    LET r == inflight[w]
    IN  /\ r.pc = "commentDelete"
        /\ comments' = Restrict(comments, DOMAIN comments \ {r.pk})
        /\ Respond(w, r.op, r.user, "NoContent")
        /\ UNCHANGED <<users, boards, nextBoardId, tasks, nextTaskId, nextCommentId, clock>>

\* ----------------------------------------------------------------- lists
\* The view returns a list: the answer is sent and the worker is between
\* requests again.
RespondList(w, op, user, body) ==
    /\ resp' = Listed(op, user, "OK", body)
    /\ inflight' = [inflight EXCEPT ![w] = Idle]

\* QuerySet.order_by / Meta.ordering: every way to return the rows of a set
\* once each such that no row comes after one that sorts behind it; rows the
\* ordering does not tell apart come in either order.
\* before is the set of pairs <<r1, r2>> of rows with r1 sorting ahead of r2.
order_by(rows, before) ==
    {s \in [1..Cardinality(rows) -> rows] :
        /\ \A i, j \in DOMAIN s : i # j => s[i] # s[j]
        /\ \A i, j \in DOMAIN s : i < j => <<s[j], s[i]>> \notin before}

PkOf(listing) == [i \in DOMAIN listing |-> listing[i][1]]

\* Board.Meta.ordering = ["title", "id"]; the titles in use, as strings sort.
TitlesSorted == <<"Sprint 1", "Sprint 2">>
TitleRank(title) == CHOOSE i \in DOMAIN TitlesSorted : TitlesSorted[i] = title
BoardBefore(r1, r2) ==
    LET t1 == TitleRank(boards[r1[1]].title)
        t2 == TitleRank(boards[r2[1]].title)
    IN  t1 < t2 \/ (t1 = t2 /\ r1[1] < r2[1])
BoardOrdering ==
    LET rows == (DOMAIN boards) \X (Users \cup {Null})
    IN  {p \in rows \X rows : BoardBefore(p[1], p[2])}

\* Board.objects.filter(Q(owner=user) | Q(members=user)): the rows of boards
\* joined with their member rows (one row with a null member for a board
\* without members) that satisfy the condition; <<board pk, member>>.
BoardsJoinMembers(user) ==
    {r \in {<<b, m>> : b \in DOMAIN boards, m \in Users \cup {Null}} :
        /\ r[2] \in (IF boards[r[1]].members = {} THEN {Null} ELSE boards[r[1]].members)
        /\ boards[r[1]].owner = user \/ r[2] = user}

EveryJoinedRow(rows) == rows
\* .distinct(): SELECT DISTINCT over the board's columns
distinct(rows) == {<<r[1], Null>> : r \in rows}

\* GET /api/boards/ : BoardListCreateView.get_queryset, one query.
BoardList(w, user) ==
    /\ inflight[w].pc = "idle"
    /\ UNCHANGED store
    /\ IF ~IsAuthenticated(user)
       THEN Respond(w, "BoardList", user, "NotAuthenticated")
       ELSE \E l \in order_by(distinct(BoardsJoinMembers(user)), BoardOrdering) :
                RespondList(w, "BoardList", user, PkOf(l))

TasksOf(pks) == {<<t>> : t \in pks}

\* Task.Meta.ordering = ["due_date", "priority"]: the earlier due date
\* first and, of two tasks due the same day or both without a due date, the
\* priority that sorts first as a string.  Where the tasks without a due date
\* go is the database's choice, ahead of the dated ones (SQLite) or behind
\* them (PostgreSQL); the settings that make it are not part of the source.
PrioritiesSorted == <<"high", "low", "medium">>
PriorityRank(p) == CHOOSE i \in DOMAIN PrioritiesSorted : PrioritiesSorted[i] = p
TaskBefore(r1, r2, nullsFirst) ==
    LET d1 == tasks[r1[1]].due_date
        d2 == tasks[r2[1]].due_date
        p1 == PriorityRank(tasks[r1[1]].priority)
        p2 == PriorityRank(tasks[r2[1]].priority)
    IN  IF d1 = Null /\ d2 = Null THEN p1 < p2
        ELSE IF d1 = Null THEN nullsFirst
        ELSE IF d2 = Null THEN ~nullsFirst
        ELSE d1 < d2 \/ (d1 = d2 /\ p1 < p2)
TaskOrdering(nullsFirst) ==
    {p \in TasksOf(DOMAIN tasks) \X TasksOf(DOMAIN tasks) : TaskBefore(p[1], p[2], nullsFirst)}

AllTasksWhateverFilter(qboard) == DOMAIN tasks
\* TaskListCreateView.get_queryset: "if board_id: qs = qs.filter(board_id=board_id)"
TaskListQueryset(qboard) ==
    {t \in DOMAIN tasks : qboard # Absent => tasks[t].board = qboard}

\* GET /api/tasks/ : permission_classes = [IsAuthenticated,
\* IsBoardMemberForTaskCreate] holds for the list as for the create; data is
\* the request's body, qboard the ?board= of the query string.
TaskList(w, user, data, qboard) ==
    TaskCollectionBegin(w, "TaskList", "GET", user, data, qboard)

\* ListModelMixin.list: the query of get_queryset, and the view's 200.
TaskListRespond(w) ==
    LET r == inflight[w]
    IN  /\ r.pc = "taskList"
        /\ UNCHANGED store
        /\ \E nullsFirst \in BOOLEAN :
                \E l \in order_by(TasksOf(TaskListQueryset(r.q)), TaskOrdering(nullsFirst)) :
                    RespondList(w, r.op, r.user, PkOf(l))

\* TaskReviewingListView.get_queryset
TasksReviewedBy(user) == {t \in DOMAIN tasks : tasks[t].reviewer = user}

TasksAssignedOrReviewed(user) ==
    {t \in DOMAIN tasks : tasks[t].assignee = user \/ tasks[t].reviewer = user}
\* TaskAssignedToMeListView.get_queryset
TasksAssignedTo(user) == {t \in DOMAIN tasks : tasks[t].assignee = user}

\* GET /api/tasks/assigned-to-me/ , one query.
TaskAssignedToMe(w, user) ==
    /\ inflight[w].pc = "idle"
    /\ UNCHANGED store
    /\ IF ~IsAuthenticated(user)
       THEN Respond(w, "TaskAssignedToMe", user, "NotAuthenticated")
       ELSE \E nullsFirst \in BOOLEAN :
                \E l \in order_by(TasksOf(TasksAssignedTo(user)), TaskOrdering(nullsFirst)) :
                    RespondList(w, "TaskAssignedToMe", user, PkOf(l))

\* GET /api/tasks/reviewing/ , one query.
TaskReviewing(w, user) ==
    /\ inflight[w].pc = "idle"
    /\ UNCHANGED store
    /\ IF ~IsAuthenticated(user)
       THEN Respond(w, "TaskReviewing", user, "NotAuthenticated")
       ELSE \E nullsFirst \in BOOLEAN :
                \E l \in order_by(TasksOf(TasksReviewedBy(user)), TaskOrdering(nullsFirst)) :
                    RespondList(w, "TaskReviewing", user, PkOf(l))

NewestFirst(r1, r2) == comments[r1[1]].created_at > comments[r2[1]].created_at
\* .order_by("created_at")
CommentBefore(r1, r2) == comments[r1[1]].created_at < comments[r2[1]].created_at
CommentOrdering ==
    {p \in {<<c>> : c \in DOMAIN comments} \X {<<c>> : c \in DOMAIN comments} :
        CommentBefore(p[1], p[2])}

\* TaskComment.objects.filter(task_id=task_id)
CommentsOfTask(task_id) == {<<c>> : c \in {k \in DOMAIN comments : comments[k].task = task_id}}

\* GET /api/tasks/{task_id}/comments/ : TaskCommentListCreateView.get_queryset
\* resolves the task (404) and checks the object permission on it (403).
CommentList(w, user, task_id) ==
    CommentBegin(w, "CommentList", "GET", user, task_id, NoValue)

\* get_queryset: the query on the task's comments, and the view's 200.
CommentListRespond(w) ==
    LET r == inflight[w]
    IN  /\ r.pc = "commentList"
        /\ UNCHANGED store
        /\ \E l \in order_by(CommentsOfTask(r.pk), CommentOrdering) :
                RespondList(w, r.op, r.user, PkOf(l))

\* -------------------------------------------------------------- requests
\* The requests of one specification: the workers that serve them, who
\* sends them, what they carry, and how many rows of each table the run may
\* create.
Methods == {"PATCH", "PUT"}
UserRefs == UserIds \cup {GhostUser}

\* Registration bodies that are complete, one for each address.
Email(local, domain) == [local |-> local, domain |-> domain]
RegistrationBodies(emails) ==
    {[fullname |-> "User", email |-> e, password |-> "pw", repeated_password |-> "pw"] :
        e \in emails}
\* An address for each user that registers.
Addresses == {Email("u1", "example.org"), Email("u2", "example.org")}
\* Login bodies: each address with the password the registrations carry and
\* with another one, and a body without a password.
LoginBodies(emails) ==
    {[email |-> e, password |-> p] : e \in emails, p \in {"pw", "pv", NoValue}}

\* Task bodies: a board reference with or without a title, and those with
\* a title that carry one of status / assignee_id / reviewer_id as well.
TaskBodies(boardRefs, title, statuses, userRefs) ==
    LET bare == {[NoData EXCEPT !.board = b] : b \in boardRefs}
        named == {[d EXCEPT !.title = title] : d \in bare}
    IN  bare \cup named
        \cup {[d EXCEPT !.status = s] : d \in named, s \in statuses}
        \cup {[d EXCEPT !.assignee = u] : d \in named, u \in userRefs}
        \cup {[d EXCEPT !.reviewer = u] : d \in named, u \in userRefs}

\* A request is taken up by a worker that is between requests.
Free(w) == inflight[w].pc = "idle"
\* The registrations that passed validation and have not written yet, and
\* the requests of an operation that are in progress.
Registering == Cardinality({w \in Workers : inflight[w].pc = "validated"})
InProgress(op) == Cardinality({w \in Workers : inflight[w].op = op})

UserRequests(R) ==
    \/ \E w \in R.workers, d \in R.registerData :
            /\ RegistrationValid(d) => Len(users) + Registering < R.maxUsers
            /\ RegistrationView_post(w, d)
    \/ \E w \in R.workers : RegistrationCreateUser(w)
    \/ \E w \in R.workers : RegistrationCreateToken(w)

\* The login route, and the users that are created outside any request.
LoginRequests(R) ==
    \/ \E w \in R.workers, d \in R.loginData : LoginView_post(w, d)
    \/ \E w \in R.workers : LoginGetToken(w)
    \/ \E w \in R.workers : LoginCreateToken(w)
    \/ \E e \in R.superusers :
            /\ Len(users) + Registering < R.maxUsers
            /\ create_superuser(e, "pw")

BoardRequests(R) ==
    \/ \E w \in R.workers :
            /\ Free(w)
            /\ \E u \in R.actors, d \in R.boardData :
                /\ BoardCreateCode(u, d) = "Created"
                        => nextBoardId + InProgress("BoardCreate") < R.maxBoards
                /\ BoardCreate(w, u, d)
    \/ \E w \in R.workers : BoardCreateInsert(w)
    \/ \E w \in R.workers : BoardCreateMembersSelect(w)
    \/ \E w \in R.workers : BoardCreateMembersRemove(w)
    \/ \E w \in R.workers : BoardCreateMembersSet(w)
    \/ \E w \in R.workers :
            Free(w) /\ \E u \in R.actors, pk \in 1..R.maxBoards : BoardRetrieve(w, u, pk)
    \/ \E w \in R.workers :
            /\ Free(w)
            /\ \E m \in R.methods, u \in R.actors, pk \in 1..R.maxBoards, d \in R.updateData :
                BoardUpdate(w, m, u, pk, d)
    \/ \E w \in R.workers :
            Free(w) /\ \E u \in R.actors, pk \in 1..R.maxBoards : BoardDestroy(w, u, pk)
    \/ \E w \in R.workers : BoardPermissionMembers(w)
    \/ \E w \in R.workers : BoardMembersSelect(w)
    \/ \E w \in R.workers : BoardMembersRemove(w)
    \/ \E w \in R.workers : BoardMembersSet(w)
    \/ \E w \in R.workers : BoardSave(w)
    \/ \E w \in R.workers : BoardRetrieveRespond(w)
    \/ \E w \in R.workers : BoardCollect(w)
    \/ \E w \in R.workers : BoardDeleteRelated(w)
    \/ \E w \in R.workers : BoardDelete(w)

\* save() of a board, or of a task, that another request deleted since this
\* one loaded it: only requests that are served side by side get to it.
BoardInsertSteps(R) == \E w \in R.workers : BoardInsert(w)
TaskReinsertSteps(R) == \E w \in R.workers : TaskReinsert(w)

\* The task routes, but for the statements only a member of the board or a
\* body with an assignee or a reviewer gets to.
TaskRequests(R) ==
    \/ \E w \in R.workers :
            /\ Free(w)
            /\ \E u \in R.actors, d \in R.taskData :
                /\ TaskCollectionCode(u, d) = "Found"
                        => nextTaskId + InProgress("TaskCreate") < R.maxTasks
                /\ TaskCreate(w, u, d)
    \/ \E w \in R.workers : TaskCollectionMembers(w)
    \/ \E w \in R.workers : TaskValidateBoard(w)
    \/ \E w \in R.workers : TaskInsert(w)
    \/ \E w \in R.workers :
            /\ Free(w)
            /\ \E u \in R.actors, pk \in 1..R.maxTasks, q \in R.filters :
                TaskRetrieve(w, u, pk, q)
    \/ \E w \in R.workers :
            /\ Free(w)
            /\ \E m \in R.methods, u \in R.actors, pk \in 1..R.maxTasks, q \in R.filters,
                  d \in R.taskData :
                TaskUpdate(w, m, u, pk, q, d)
    \/ \E w \in R.workers :
            /\ Free(w)
            /\ \E u \in R.actors, pk \in 1..R.maxTasks, q \in R.filters :
                TaskDestroy(w, u, pk, q)
    \/ \E w \in R.workers : TaskPermissionBoard(w)
    \/ \E w \in R.workers : TaskPermissionMembers(w)
    \/ \E w \in R.workers : TaskGetObject(w)
    \/ \E w \in R.workers : TaskObjectBoard(w)
    \/ \E w \in R.workers : TaskSave(w)
    \/ \E w \in R.workers : TaskDeleteComments(w)
    \/ \E w \in R.workers : TaskDelete(w)

\* The object permission's query on the members: the comment routes get to
\* it, and a task read or update by a member of the board.
TaskObjectMemberSteps(R) == \E w \in R.workers : TaskObjectMembers(w)
\* The second permission check of a task update by a member of the board.
TaskRecheckSteps(R) == \E w \in R.workers : TaskRecheckMembers(w)
\* validate() of a task body that names an assignee or a reviewer.
TaskAssigneeSteps(R) ==
    \/ \E w \in R.workers : TaskValidateAssignee(w)
    \/ \E w \in R.workers : TaskValidateReviewer(w)

CommentRequests(R) ==
    \/ \E w \in R.workers :
            /\ Free(w)
            /\ \E u \in R.actors, t \in 1..R.maxTasks, c \in {NoValue, "LGTM"} :
                /\ (IsAuthenticated(u) /\ c # NoValue /\ t \in DOMAIN tasks)
                        => clock + InProgress("CommentCreate") < R.maxComments
                /\ CommentCreate(w, u, t, c)
    \/ \E w \in R.workers : CommentCreatedAt(w)
    \/ \E w \in R.workers : CommentInsert(w)
    \/ \E w \in R.workers :
            /\ Free(w)
            /\ \E u \in R.actors, t \in 1..R.maxTasks, c \in 1..R.maxComments :
                CommentDestroy(w, u, t, c)
    \/ \E w \in R.workers : CommentDelete(w)

\* The list routes.
BoardListRequests(R) ==
    \E w \in R.workers : Free(w) /\ \E u \in R.actors : BoardList(w, u)

TaskListRequests(R) ==
    \/ \E w \in R.workers :
            /\ Free(w)
            /\ \E u \in R.actors, d \in R.listData, q \in R.listFilters : TaskList(w, u, d, q)
    \/ \E w \in R.workers : TaskListRespond(w)
    \/ \E w \in R.workers : Free(w) /\ \E u \in R.actors : TaskAssignedToMe(w, u)
    \/ \E w \in R.workers : Free(w) /\ \E u \in R.actors : TaskReviewing(w, u)

CommentListRequests(R) ==
    \/ \E w \in R.workers :
            Free(w) /\ \E u \in R.actors, t \in 1..R.maxTasks : CommentList(w, u, t)
    \/ \E w \in R.workers : CommentListRespond(w)

AllUserLists == {<<>>} \cup {<<ids>> : ids \in SUBSET UserRefs}
MemberLists == {<<>>} \cup {<<ids>> : ids \in SUBSET UserIds}

\* One board, one task, one comment: every member list a board request can
\* carry, task bodies that carry a board and a title only.
Requests ==
    [workers |-> 1..SerialWorkers,
     maxUsers |-> NUsers, registerData |-> RegistrationBodies(Addresses),
     actors |-> UserIds, methods |-> Methods,
     maxBoards |-> MaxBoards, maxTasks |-> MaxTasks, maxComments |-> MaxComments,
     boardData |-> [title : {"Sprint 1", NoTitle}, members : AllUserLists],
     updateData |-> [title : {"Sprint 1", NoTitle}, members : AllUserLists],
     taskData |-> TaskBodies((1..MaxBoards) \cup {Absent}, "Fix bug", {}, {}),
     filters |-> {Absent, MaxBoards + 1}]

Next ==
    \/ UserRequests(Requests)
    \/ BoardRequests(Requests)
    \/ TaskRequests(Requests)
    \/ TaskObjectMemberSteps(Requests)
    \/ TaskRecheckSteps(Requests)
    \/ CommentRequests(Requests)

Spec == Init /\ [][Next]_vars

\* One board and one task, no comments: every member list, and task bodies
\* with every board reference, a status, an assignee or a reviewer.
RichTaskRequests ==
    [workers |-> 1..SerialWorkers,
     maxUsers |-> NUsers, registerData |-> RegistrationBodies(Addresses),
     actors |-> UserIds, methods |-> Methods,
     maxBoards |-> MaxBoards, maxTasks |-> MaxTasks,
     boardData |-> [title : {"Sprint 1"}, members : MemberLists],
     updateData |-> [title : {"Sprint 1"}, members : MemberLists],
     taskData |-> TaskBodies((0..MaxBoards + 1) \cup {Absent}, "Fix bug",
                             {"done"}, UserRefs \cup {Null}),
     filters |-> {Absent}]

NextTask ==
    \/ UserRequests(RichTaskRequests)
    \/ BoardRequests(RichTaskRequests)
    \/ TaskRequests(RichTaskRequests)
    \/ TaskObjectMemberSteps(RichTaskRequests)
    \/ TaskRecheckSteps(RichTaskRequests)
    \/ TaskAssigneeSteps(RichTaskRequests)

SpecTask == Init /\ [][NextTask]_vars

\* Several boards, tasks and comments side by side: boards with an empty
\* member list, task bodies that carry a board and a title only.
WideRequests ==
    [workers |-> 1..SerialWorkers,
     maxUsers |-> NUsers, registerData |-> RegistrationBodies(Addresses),
     actors |-> UserIds, methods |-> Methods,
     maxBoards |-> WideBoards, maxTasks |-> WideTasks, maxComments |-> WideComments,
     boardData |-> [title : {"Sprint 1"}, members : {<<{}>>}],
     updateData |-> [title : {"Sprint 1"}, members : {<<{}>>}],
     taskData |-> TaskBodies((1..WideBoards) \cup {Absent}, "Fix bug", {}, {}),
     filters |-> {Absent}]

NextWide ==
    \/ UserRequests(WideRequests)
    \/ BoardRequests(WideRequests)
    \/ TaskRequests(WideRequests)
    \/ TaskObjectMemberSteps(WideRequests)
    \/ CommentRequests(WideRequests)

SpecWide == Init /\ [][NextWide]_vars

\* One board, several tasks and comments: the comment routes, with every
\* member list of users that register and task bodies that carry a board and
\* a title only.
CommentRequestSet ==
    [workers |-> 1..SerialWorkers,
     maxUsers |-> NUsers, registerData |-> RegistrationBodies(Addresses),
     actors |-> UserIds, methods |-> Methods,
     maxBoards |-> MaxBoards, maxTasks |-> WideTasks, maxComments |-> WideComments,
     boardData |-> [title : {"Sprint 1"}, members : MemberLists],
     updateData |-> [title : {"Sprint 1"}, members : MemberLists],
     taskData |-> TaskBodies(1..MaxBoards, "Fix bug", {}, {}),
     filters |-> {Absent}]

NextComment ==
    \/ UserRequests(CommentRequestSet)
    \/ BoardRequests(CommentRequestSet)
    \/ TaskRequests(CommentRequestSet)
    \/ TaskObjectMemberSteps(CommentRequestSet)
    \/ TaskRecheckSteps(CommentRequestSet)
    \/ CommentRequests(CommentRequestSet)
    \/ CommentListRequests(CommentRequestSet)

SpecComment == Init /\ [][NextComment]_vars

\* Several boards and nothing else: the board routes with two titles and
\* every member list a request can carry.
BoardRequestSet ==
    [workers |-> 1..SerialWorkers,
     maxUsers |-> NUsers, registerData |-> RegistrationBodies(Addresses),
     actors |-> UserIds, methods |-> Methods,
     maxBoards |-> WideBoards,
     boardData |-> [title : {"Sprint 1", "Sprint 2", NoTitle}, members : AllUserLists],
     updateData |-> [title : {"Sprint 1", "Sprint 2", NoTitle}, members : AllUserLists]]

NextBoard ==
    \/ UserRequests(BoardRequestSet)
    \/ BoardRequests(BoardRequestSet)
    \/ BoardListRequests(BoardRequestSet)

SpecBoard == Init /\ [][NextBoard]_vars

\* One board, several tasks, no comments: the task routes and the three
\* task lists, board requests that carry no member list, the empty one or
\* the list of every user, task bodies that carry an assignee or a reviewer.
AssignRequestSet ==
    [workers |-> 1..SerialWorkers,
     maxUsers |-> NUsers, registerData |-> RegistrationBodies(Addresses),
     actors |-> UserIds, methods |-> Methods,
     maxBoards |-> MaxBoards, maxTasks |-> WideTasks,
     boardData |-> [title : {"Sprint 1"}, members : {<<>>, <<{}>>, <<UserIds>>}],
     updateData |-> [title : {"Sprint 1"}, members : {<<>>, <<{}>>, <<UserIds>>}],
     taskData |-> TaskBodies(1..MaxBoards, "Fix bug", {}, UserIds),
     filters |-> {Absent},
     listData |-> {NoData} \cup {[NoData EXCEPT !.board = b] : b \in 1..MaxBoards},
     listFilters |-> {Absent}]

NextAssign ==
    \/ UserRequests(AssignRequestSet)
    \/ BoardRequests(AssignRequestSet)
    \/ TaskRequests(AssignRequestSet)
    \/ TaskObjectMemberSteps(AssignRequestSet)
    \/ TaskRecheckSteps(AssignRequestSet)
    \/ TaskAssigneeSteps(AssignRequestSet)
    \/ TaskListRequests(AssignRequestSet)

SpecAssign == Init /\ [][NextAssign]_vars

\* Task bodies for the first board that carry a due date, yyyymmdd: an
\* early one with a priority that sorts late, a late one with a priority
\* that sorts early, and a day no month has.
DueBodies(title) ==
    {[NoData EXCEPT !.board = 1, !.title = title, !.due_date = 20260101, !.priority = "low"],
     [NoData EXCEPT !.board = 1, !.title = title, !.due_date = 20261231, !.priority = "high"],
     [NoData EXCEPT !.board = 1, !.title = title, !.due_date = 20260230]}

\* Several boards with an empty member list and several tasks, no comments:
\* the task routes and the task lists, list requests with and without a
\* board in the body and in the query string, tasks with and without a due
\* date.
ListRequestSet ==
    [workers |-> 1..SerialWorkers,
     maxUsers |-> NUsers, registerData |-> RegistrationBodies(Addresses),
     actors |-> UserIds, methods |-> Methods,
     maxBoards |-> WideBoards, maxTasks |-> WideTasks,
     boardData |-> [title : {"Sprint 1"}, members : {<<{}>>}],
     updateData |-> [title : {"Sprint 1"}, members : {<<{}>>}],
     taskData |-> TaskBodies(1..WideBoards, "Fix bug", {}, {}) \cup DueBodies("Fix bug"),
     filters |-> {Absent},
     listData |-> {NoData} \cup {[NoData EXCEPT !.board = b] : b \in 1..WideBoards},
     listFilters |-> {Absent} \cup (1..WideBoards)]

NextList ==
    \/ UserRequests(ListRequestSet)
    \/ BoardRequests(ListRequestSet)
    \/ TaskRequests(ListRequestSet)
    \/ TaskListRequests(ListRequestSet)

SpecList == Init /\ [][NextList]_vars

\* Registration bodies that are refused: a field left out, two passwords
\* that differ; and one whose address differs from a stored one in the case
\* of its domain only.
OddRegistrations ==
    LET good == [fullname |-> "User", email |-> Email("u1", "example.org"),
                 password |-> "pw", repeated_password |-> "pw"]
    IN  {[good EXCEPT !.fullname = NoValue],
         [good EXCEPT !.email = NoEmail],
         [good EXCEPT !.repeated_password = "pv"],
         [good EXCEPT !.email = Email("u1", "EXAMPLE.org")]}

\* One board, one task, one comment, every route: requests with and without
\* credentials, with bodies that are valid and bodies that are not, naming
\* rows that exist and rows that do not.
AnyoneRequestSet ==
    [workers |-> 1..SerialWorkers,
     maxUsers |-> NUsers,
     registerData |-> RegistrationBodies(Addresses) \cup OddRegistrations,
     loginData |-> LoginBodies(Addresses), superusers |-> Addresses,
     actors |-> UserIds \cup {Anonymous}, methods |-> Methods,
     maxBoards |-> MaxBoards, maxTasks |-> MaxTasks, maxComments |-> MaxComments,
     boardData |-> [title : {"Sprint 1", NoTitle}, members : {<<>>, <<UserIds>>, <<{GhostUser}>>}],
     updateData |-> [title : {"Sprint 1", NoTitle}, members : {<<>>, <<UserIds>>, <<{GhostUser}>>}],
     taskData |-> TaskBodies((1..MaxBoards + 1) \cup {Absent}, "Fix bug", {}, {}),
     filters |-> {Absent},
     listData |-> {NoData} \cup {[NoData EXCEPT !.board = b] : b \in 1..MaxBoards + 1},
     listFilters |-> {Absent}]

NextAnyone ==
    \/ UserRequests(AnyoneRequestSet)
    \/ LoginRequests(AnyoneRequestSet)
    \/ BoardRequests(AnyoneRequestSet)
    \/ BoardListRequests(AnyoneRequestSet)
    \/ TaskRequests(AnyoneRequestSet)
    \/ TaskObjectMemberSteps(AnyoneRequestSet)
    \/ TaskRecheckSteps(AnyoneRequestSet)
    \/ TaskListRequests(AnyoneRequestSet)
    \/ CommentRequests(AnyoneRequestSet)
    \/ CommentListRequests(AnyoneRequestSet)

SpecAnyone == Init /\ [][NextAnyone]_vars

\* One board, created as "Sprint 1" with an empty member list or with the
\* last user as its only member, and workers that read, update and delete it
\* side by side: an update either carries the title "Sprint 2" and every
\* user as members, or no title and an empty member list.
ConcurrentRequestSet ==
    [workers |-> Workers,
     maxUsers |-> NUsers, registerData |-> RegistrationBodies(Addresses),
     loginData |-> LoginBodies({Email("u1", "example.org")}),
     superusers |-> {Email("u1", "example.org")},
     actors |-> UserIds, methods |-> {"PATCH"},
     maxBoards |-> MaxBoards,
     boardData |-> {[title |-> "Sprint 1", members |-> <<{}>>],
                    [title |-> "Sprint 1", members |-> <<{NUsers}>>]},
     updateData |-> {[title |-> "Sprint 2", members |-> <<UserIds>>],
                     [title |-> NoTitle, members |-> <<{}>>]}]

NextConcurrent ==
    \/ UserRequests(ConcurrentRequestSet)
    \/ LoginRequests(ConcurrentRequestSet)
    \/ BoardRequests(ConcurrentRequestSet)
    \/ BoardInsertSteps(ConcurrentRequestSet)

SpecConcurrent == Init /\ [][NextConcurrent]_vars

\* One board with the last user as its only member and one task on it, and
\* workers that read, update and delete the board and the task and comment
\* on the task side by side: a board update empties the member list, a task
\* update carries a status.
RaceRequestSet ==
    [workers |-> Workers,
     maxUsers |-> NUsers, registerData |-> RegistrationBodies(Addresses),
     actors |-> UserIds, methods |-> {"PATCH"},
     maxBoards |-> MaxBoards, maxTasks |-> MaxTasks, maxComments |-> MaxComments,
     boardData |-> {[title |-> "Sprint 1", members |-> <<{NUsers}>>]},
     updateData |-> {[title |-> NoTitle, members |-> <<{}>>]},
     taskData |-> {[NoData EXCEPT !.board = 1, !.title = "Fix bug"],
                   [NoData EXCEPT !.status = "done"]},
     filters |-> {Absent}]

NextRace ==
    \/ UserRequests(RaceRequestSet)
    \/ BoardRequests(RaceRequestSet)
    \/ BoardInsertSteps(RaceRequestSet)
    \/ TaskRequests(RaceRequestSet)
    \/ TaskReinsertSteps(RaceRequestSet)
    \/ TaskObjectMemberSteps(RaceRequestSet)
    \/ TaskRecheckSteps(RaceRequestSet)
    \/ CommentRequests(RaceRequestSet)

SpecRace == Init /\ [][NextRace]_vars

\* Task bodies that carry a status and a priority, each a member of its
\* enumeration, a value outside it, or left out: partial bodies with nothing
\* else, and full bodies with the board and a title.
StatusBodies(boardRefs, title) ==
    LET partial == {[NoData EXCEPT !.status = s, !.priority = p] :
                        s \in STATUS_CHOICES \cup {"blocked", NoValue},
                        p \in PRIORITY_CHOICES \cup {"urgent", NoValue}}
    IN  partial \cup {[d EXCEPT !.board = b, !.title = title] : d \in partial, b \in boardRefs}

\* One board, one task, no comments: the board with every user or no user
\* as members, task bodies with every status and priority and with values
\* that are neither.
StatusRequestSet ==
    [workers |-> 1..SerialWorkers,
     maxUsers |-> NUsers, registerData |-> RegistrationBodies(Addresses),
     actors |-> UserIds, methods |-> Methods,
     maxBoards |-> MaxBoards, maxTasks |-> MaxTasks,
     boardData |-> [title : {"Sprint 1"}, members : {<<{}>>, <<UserIds>>}],
     updateData |-> [title : {"Sprint 1"}, members : {<<{}>>, <<UserIds>>}],
     taskData |-> StatusBodies(1..MaxBoards, "Fix bug"),
     filters |-> {Absent}]

NextStatus ==
    \/ UserRequests(StatusRequestSet)
    \/ BoardRequests(StatusRequestSet)
    \/ TaskRequests(StatusRequestSet)
    \/ TaskObjectMemberSteps(StatusRequestSet)
    \/ TaskRecheckSteps(StatusRequestSet)

SpecStatus == Init /\ [][NextStatus]_vars

\* Two boards, each created without members or with every user as members,
\* and one task: task bodies that name the first board, the second, one that
\* does not exist, or none, with and without a title.
MoveRequestSet ==
    [workers |-> 1..SerialWorkers,
     maxUsers |-> NUsers, registerData |-> RegistrationBodies(Addresses),
     actors |-> UserIds, methods |-> Methods,
     maxBoards |-> WideBoards, maxTasks |-> MaxTasks,
     boardData |-> [title : {"Sprint 1"}, members : {<<{}>>, <<UserIds>>}],
     updateData |-> [title : {"Sprint 1"}, members : {<<{}>>}],
     taskData |-> TaskBodies((1..WideBoards + 1) \cup {Absent}, "Fix bug", {}, {}),
     filters |-> {Absent}]

NextMove ==
    \/ UserRequests(MoveRequestSet)
    \/ BoardRequests(MoveRequestSet)
    \/ TaskRequests(MoveRequestSet)
    \/ TaskObjectMemberSteps(MoveRequestSet)
    \/ TaskRecheckSteps(MoveRequestSet)

SpecMove == Init /\ [][NextMove]_vars

\* One board with every member list, one task and one comment: task bodies
\* with or without the board, a title, an assignee or a reviewer, and
\* requests with and without a board filter that hides the task.
DeleteRequestSet ==
    [workers |-> 1..SerialWorkers,
     maxUsers |-> NUsers, registerData |-> RegistrationBodies(Addresses),
     actors |-> UserIds, methods |-> {"PATCH"},
     maxBoards |-> MaxBoards, maxTasks |-> MaxTasks, maxComments |-> MaxComments,
     boardData |-> [title : {"Sprint 1"}, members : MemberLists],
     updateData |-> [title : {NoTitle}, members : {<<{}>>}],
     taskData |-> TaskBodies((1..MaxBoards) \cup {Absent}, "Fix bug", {}, UserIds),
     filters |-> {Absent, MaxBoards + 1}]

NextDelete ==
    \/ UserRequests(DeleteRequestSet)
    \/ BoardRequests(DeleteRequestSet)
    \/ TaskRequests(DeleteRequestSet)
    \/ TaskObjectMemberSteps(DeleteRequestSet)
    \/ TaskRecheckSteps(DeleteRequestSet)
    \/ TaskAssigneeSteps(DeleteRequestSet)
    \/ CommentRequests(DeleteRequestSet)

SpecDelete == Init /\ [][NextDelete]_vars

\* One board with every member list and one task, no comments: task bodies
\* with or without the board, a status, an assignee or a reviewer, and
\* requests without a board filter, with the filter that names the task's
\* board and with one that names another.
DetailRequestSet ==
    [workers |-> 1..SerialWorkers,
     maxUsers |-> NUsers, registerData |-> RegistrationBodies(Addresses),
     actors |-> UserIds, methods |-> Methods,
     maxBoards |-> MaxBoards, maxTasks |-> MaxTasks,
     boardData |-> [title : {"Sprint 1"}, members : MemberLists],
     updateData |-> [title : {"Sprint 1"}, members : MemberLists],
     taskData |-> TaskBodies((1..MaxBoards) \cup {Absent}, "Fix bug",
                             {"done"}, UserRefs \cup {Null}),
     filters |-> {Absent} \cup (1..MaxBoards + 1)]

NextDetail ==
    \/ UserRequests(DetailRequestSet)
    \/ BoardRequests(DetailRequestSet)
    \/ TaskRequests(DetailRequestSet)
    \/ TaskObjectMemberSteps(DetailRequestSet)
    \/ TaskRecheckSteps(DetailRequestSet)
    \/ TaskAssigneeSteps(DetailRequestSet)

SpecDetail == Init /\ [][NextDetail]_vars

\* ---------------------------------------------------------------- claims
\* What the claims say of a request, stated from the board and the sender
\* alone.
OwnerOf(pk) == boards[pk].owner
OwnerOrMember(u, pk) == u = boards[pk].owner \/ u \in boards[pk].members
\* The users whose requests carry credentials: those that have a token.
Authenticated == {u \in Users : users[u].token}
\* The request of worker w was answered with code and nothing was written.
Refused(w, code) == resp'.code = code /\ inflight'[w] = Idle /\ UNCHANGED store
\* The request of worker w was not answered yet and wrote nothing: it goes
\* on with one of the statements pcs.
Proceeds(w, pcs) == resp' = NoAnswer /\ inflight'[w].pc \in pcs /\ UNCHANGED store
\* The statement a request in progress of worker w is at, whichever it is.
Step(w) ==
    \/ BoardCreateInsert(w) \/ BoardCreateMembersSelect(w)
    \/ BoardCreateMembersRemove(w) \/ BoardCreateMembersSet(w)
    \/ BoardPermissionMembers(w) \/ BoardMembersSelect(w) \/ BoardMembersRemove(w)
    \/ BoardMembersSet(w)
    \/ BoardSave(w) \/ BoardInsert(w) \/ BoardRetrieveRespond(w)
    \/ BoardCollect(w) \/ BoardDeleteRelated(w) \/ BoardDelete(w)
    \/ TaskCollectionMembers(w) \/ TaskValidateBoard(w) \/ TaskValidateAssignee(w)
    \/ TaskValidateReviewer(w) \/ TaskInsert(w) \/ TaskListRespond(w)
    \/ TaskPermissionBoard(w) \/ TaskPermissionMembers(w) \/ TaskGetObject(w)
    \/ TaskObjectBoard(w) \/ TaskObjectMembers(w) \/ TaskRecheckMembers(w)
    \/ TaskSave(w) \/ TaskReinsert(w) \/ TaskDeleteComments(w) \/ TaskDelete(w)
    \/ CommentCreatedAt(w) \/ CommentInsert(w) \/ CommentDelete(w)
    \/ CommentListRespond(w)
\* The statements a board request that passed its permission goes on with.
BoardPermittedPcs == {"boardRender", "boardDelete", "boardMembersSet", "boardSave"}
\* A board request that passed its permission is refused only for a PUT
\* without a title.
BoardLetIn(w, m, d) ==
    IF m = "PUT" /\ d.title = NoTitle THEN Refused(w, "ValidationError")
    ELSE Proceeds(w, BoardPermittedPcs)
\* Since the delete of worker w removed the rows that hang on its board,
\* none was added: the board has no task the delete did not collect, the
\* collected tasks no comment and the board no member row that came later.
NothingAdded(w) ==
    LET r == inflight[w]
    IN  /\ TasksOfBoard(r.pk) \subseteq r.collected
        /\ \A c \in CommentsOfTasks(r.collected) : c <= r.mark
        /\ members_all(r.board) \subseteq r.old
\* A board request that is past its permission is not refused later: while
\* the board is there, the member set is read unless the request names an id
\* no user has, and its rows are removed and added unless another request
\* is writing at that moment; the save goes through and is answered OK (when the row is gone it
\* goes on to insert it, which is answered OK as well), a read is answered
\* OK, and a delete collects the tasks, removes what hangs on the board and,
\* when nothing was added since, removes the board.
CarriedOut(w) ==
    LET r == inflight[w]
    IN  /\ (r.pc = "boardMembersSet" /\ r.pk \in DOMAIN boards) =>
            ~ENABLED (BoardMembersSelect(w)
                /\ ~(IF ValueOf(r.data.members) \subseteq Users
                     THEN Proceeds(w, {"boardMembersWrite"})
                     ELSE Refused(w, "ValidationError")))
        /\ (r.pc = "boardMembersWrite" /\ ~Busy(w)) =>
            ~ENABLED (BoardMembersRemove(w) /\ ~Proceeds(w, {"boardMembersAdd"}))
        /\ (r.pc = "boardMembersAdd" /\ r.pk \in DOMAIN boards /\ ~Busy(w)) =>
            ~ENABLED (BoardMembersSet(w)
                /\ ~(resp' = NoAnswer /\ inflight'[w].pc = "boardSave"))
        /\ r.pc = "boardSave" =>
            ~ENABLED (BoardSave(w)
                /\ ~(IF r.pk \in DOMAIN boards
                     THEN resp'.code = "OK" /\ inflight'[w] = Idle
                     ELSE Proceeds(w, {"boardInsert"})))
        /\ (r.pc = "boardInsert" /\ r.pk \notin DOMAIN boards) =>
            ~ENABLED (BoardInsert(w) /\ ~(resp'.code = "OK" /\ inflight'[w] = Idle))
        /\ r.pc = "boardRender" => ~ENABLED (BoardRetrieveRespond(w) /\ ~Refused(w, "OK"))
        /\ r.pc = "boardDelete" =>
            ~ENABLED (BoardCollect(w) /\ ~Proceeds(w, {"boardDeleteRelated"}))
        /\ r.pc = "boardDeleteRelated" =>
            ~ENABLED (BoardDeleteRelated(w) /\ ~Proceeds(w, {"boardDeleteCommit"}))
        /\ (r.pc = "boardDeleteCommit" /\ NothingAdded(w)) =>
            ~ENABLED (BoardDelete(w)
                /\ ~(resp'.code = "NoContent" /\ inflight'[w] = Idle
                     /\ r.pk \notin DOMAIN boards'))

\* C1: a Delete Board sent by an authenticated user who is not the board's
\* owner (a member included) is answered Forbidden at once, and the board,
\* its tasks and their comments are all still there afterwards; the only
\* request that gets to delete a board is one of its owner.
C1_DeleteBoardOnlyByOwner ==
    \A w \in Requests.workers :
        /\ inflight[w].pc = "idle" =>
            \A u \in Authenticated, pk \in DOMAIN boards :
                u # OwnerOf(pk) =>
                    ~ENABLED (BoardDestroy(w, u, pk) /\ ~Refused(w, "Forbidden"))
        /\ inflight[w].pc \in {"boardDelete", "boardDeleteRelated", "boardDeleteCommit"} =>
            /\ inflight[w].user = inflight[w].board.owner
            /\ inflight[w].pk \in DOMAIN boards => inflight[w].user = OwnerOf(inflight[w].pk)

\* A member who is not the owner was just refused the delete of a board that
\* has a task with a comment.
C1_Witness ==
    /\ resp.op = "BoardDestroy" /\ resp.code = "Forbidden"
    /\ \E pk \in DOMAIN boards :
        /\ resp.user \in boards[pk].members /\ resp.user # boards[pk].owner
        /\ \E c \in DOMAIN comments : tasks[comments[c].task].board = pk

\* C3: in every reachable state, whatever the member set holds, the owner's
\* read, update and delete of the board pass the permission at once, without
\* a look at the member set, and are not refused afterwards: the read is
\* answered OK, the delete removes the board, the update is written and
\* answered OK; the only refusal is the validation error of a body without a
\* title or with a member id no user has.
C3_OwnerAlwaysAllowed ==
    \A w \in Requests.workers :
        /\ inflight[w].pc = "idle" =>
            \A pk \in DOMAIN boards :
                /\ ~ENABLED (BoardRetrieve(w, OwnerOf(pk), pk) /\ ~Proceeds(w, {"boardRender"}))
                /\ ~ENABLED (BoardDestroy(w, OwnerOf(pk), pk) /\ ~Proceeds(w, {"boardDelete"}))
                /\ \A m \in Methods, d \in Requests.updateData :
                    ~ENABLED (BoardUpdate(w, m, OwnerOf(pk), pk, d)
                        /\ ~(IF m = "PUT" /\ d.title = NoTitle
                             THEN Refused(w, "ValidationError")
                             ELSE Proceeds(w, {"boardMembersSet", "boardSave"})))
        /\ (inflight[w].pc # "idle" /\ inflight[w].user = inflight[w].board.owner) =>
                CarriedOut(w)

\* The owner, who is not in the non-empty member set, just updated the board.
C3_Witness ==
    /\ resp.op = "BoardUpdate" /\ resp.code = "OK"
    /\ \E pk \in DOMAIN boards :
        /\ boards[pk].owner = resp.user
        /\ boards[pk].members # {}
        /\ resp.user \notin boards[pk].members

\* C4: in every reachable state a board read or update by the owner passes
\* the permission at once; by anyone else it is decided by the member set as
\* the permission's query finds it: a member passes, and a user who is
\* neither is answered Forbidden with the title and the member set
\* unchanged.  A request that passed is carried out: it is refused only for
\* a body that is not valid.
C4_BoardReadUpdateByOwnerOrMember ==
    \A w \in Requests.workers :
        /\ inflight[w].pc = "idle" =>
            \A u \in Authenticated, pk \in DOMAIN boards :
                LET asClaimed(m, d) ==
                        IF u = OwnerOf(pk) THEN BoardLetIn(w, m, d)
                        ELSE \/ Proceeds(w, {"boardMembers"})
                             \/ ~OwnerOrMember(u, pk) /\ Refused(w, "Forbidden")
                IN  /\ ~ENABLED (BoardRetrieve(w, u, pk) /\ ~asClaimed("GET", NoBoardData))
                    /\ \A m \in Methods, d \in Requests.updateData :
                        ~ENABLED (BoardUpdate(w, m, u, pk, d) /\ ~asClaimed(m, d))
        /\ LET r == inflight[w]
           IN  (r.pc = "boardMembers" /\ r.pk \in DOMAIN boards) =>
                ~ENABLED (BoardPermissionMembers(w)
                    /\ ~(IF OwnerOrMember(r.user, r.pk) THEN BoardLetIn(w, r.method, r.data)
                         ELSE Refused(w, "Forbidden")))
        /\ CarriedOut(w)

\* A user who is neither owner nor member was just refused an update, and a
\* member who is not the owner could have made it.
C4_Witness ==
    /\ resp.op = "BoardUpdate" /\ resp.code = "Forbidden"
    /\ \E pk \in DOMAIN boards :
        /\ resp.user # boards[pk].owner /\ resp.user \notin boards[pk].members
        /\ boards[pk].members # {}

\* Every task is on a board and every comment on a task.
ReferencesResolve ==
    /\ \A t \in DOMAIN tasks : tasks[t].board \in DOMAIN boards
    /\ \A c \in DOMAIN comments : comments[c].task \in DOMAIN tasks

\* C2: a Delete Board that succeeds leaves no task of that board and no
\* comment on such a task, and leaves every other board, every task of
\* another board and every comment on such a task as it was; in no state is
\* there a task of a board, or a comment on a task, that is gone.  The
\* statements of the delete before its last change nothing, and the last one
\* succeeds when no task, comment or member was added to the board since the
\* delete removed the others; when one was, the delete removes nothing.
C2_DeleteBoardCascade ==
    /\ ReferencesResolve
    /\ \A w \in WideRequests.workers :
        LET pk == inflight[w].pk
            ofBoard == {t \in DOMAIN tasks : tasks[t].board = pk}
            onBoard == {c \in DOMAIN comments : comments[c].task \in ofBoard}
        IN  /\ inflight[w].pc = "boardDelete" =>
                ~ENABLED (BoardCollect(w) /\ ~Proceeds(w, {"boardDeleteRelated"}))
            /\ inflight[w].pc = "boardDeleteRelated" =>
                ~ENABLED (BoardDeleteRelated(w) /\ ~Proceeds(w, {"boardDeleteCommit"}))
            /\ (inflight[w].pc = "boardDeleteCommit" /\ pk \in DOMAIN boards) =>
                ~ENABLED (BoardDelete(w)
                    /\ ~(IF NothingAdded(w)
                         THEN /\ resp'.code = "NoContent" /\ resp'.op = "BoardDestroy"
                              /\ pk \notin DOMAIN boards'
                              /\ DOMAIN tasks' = DOMAIN tasks \ ofBoard
                              /\ DOMAIN comments' = DOMAIN comments \ onBoard
                              /\ \A b \in DOMAIN boards' : boards'[b] = boards[b]
                              /\ DOMAIN boards' = DOMAIN boards \ {pk}
                              /\ \A t \in DOMAIN tasks' : tasks'[t] = tasks[t]
                              /\ \A c \in DOMAIN comments' : comments'[c] = comments[c]
                         ELSE Refused(w, "ServerError")))

\* A board was just deleted and took a task and a comment with it, while
\* another board still has its task and that task's comment.
C2_Witness ==
    /\ resp.op = "BoardDestroy" /\ resp.code = "NoContent"
    /\ nextBoardId = 2 /\ nextTaskId = 2 /\ nextCommentId = 2
    /\ Cardinality(DOMAIN boards) = 1
    /\ Cardinality(DOMAIN tasks) = 1
    /\ Cardinality(DOMAIN comments) = 1
    /\ \A c \in DOMAIN comments : comments[c].task \in DOMAIN tasks
    /\ \A t \in DOMAIN tasks : tasks[t].board \in DOMAIN boards

\* C8: a task's board never changes: in every step, every task that exists
\* before and after references the same board; a row that appears is a new
\* task, under a primary key never handed out before, or the row an update
\* request writes back under its old key with the board it loaded it with;
\* and every Task instance a request holds has the board of its row.
C8_TaskBoardImmutable ==
    [][/\ \A t \in DOMAIN tasks \cap DOMAIN tasks' : tasks'[t].board = tasks[t].board
       /\ \A t \in DOMAIN tasks' \ DOMAIN tasks :
            \/ t > nextTaskId
            \/ \E w \in Workers :
                /\ inflight[w].op = "TaskUpdate" /\ inflight[w].pk = t
                /\ tasks'[t].board = inflight[w].task.board
       /\ nextTaskId' >= nextTaskId
       /\ \A w \in Workers :
            (inflight'[w].task # NoTask /\ inflight'[w].pk \in DOMAIN tasks') =>
                tasks'[inflight'[w].pk].board = inflight'[w].task.board
       /\ \A w1, w2 \in Workers :
            (/\ inflight'[w1].task # NoTask /\ inflight'[w2].task # NoTask
             /\ inflight'[w1].pk = inflight'[w2].pk) =>
                inflight'[w1].task.board = inflight'[w2].task.board]_vars

\* A full update was just refused for a user who owns two boards, one of
\* them holding a task: the request that names the other board is such a one.
C8_Witness ==
    /\ resp.op = "TaskUpdate" /\ resp.code = "ValidationError"
    /\ \E b1 \in DOMAIN boards, b2 \in DOMAIN boards :
        /\ b1 # b2
        /\ boards[b1].owner = resp.user /\ boards[b2].owner = resp.user
        /\ \E t \in DOMAIN tasks : tasks[t].board = b1

Shown(pk, q) == q = Absent \/ q = tasks[pk].board

\* What C10 says of a Delete Task, statement by statement.  It is decided
\* once the task's board is loaded: for the task's creator and the owner of
\* its board it goes on to the delete, anyone else, a member of the board
\* and the task's assignee included, is answered Forbidden and nothing
\* changes.  Only a request of the creator or the owner gets to the delete;
\* the delete removes the task and its comments and nothing else, unless a
\* comment was added to the task after the delete removed the others, and
\* then it removes nothing.  With filtered, a request whose board filter
\* hides the task is answered NotFound beforehand; without, every request
\* gets to the decision.
DeleteTaskAsClaimed(w, filtered) ==
    LET r == inflight[w]
        own == CommentsOfTasks({r.pk})
    IN  /\ r.pc = "idle" =>
            \A u \in Authenticated, pk \in DOMAIN tasks, q \in DeleteRequestSet.filters :
                ~ENABLED (TaskDestroy(w, u, pk, q)
                    /\ ~(IF filtered /\ ~Shown(pk, q) THEN Refused(w, "NotFound")
                         ELSE Proceeds(w, {"taskObjectBoard"})))
        /\ (r.op = "TaskDestroy" /\ r.pc = "taskObjectBoard"
                /\ r.pk \in DOMAIN tasks /\ r.task.board \in DOMAIN boards) =>
            ~ENABLED (TaskObjectBoard(w)
                /\ ~(IF r.user = tasks[r.pk].creator \/ r.user = OwnerOf(r.task.board)
                     THEN Proceeds(w, {"taskDelete"})
                     ELSE Refused(w, "Forbidden")))
        /\ r.pc \in {"taskDelete", "taskDeleteCommit"} =>
            r.user = r.task.creator \/ r.user = r.board.owner
        /\ r.pc = "taskDelete" =>
            ~ENABLED (TaskDeleteComments(w) /\ ~Proceeds(w, {"taskDeleteCommit"}))
        /\ r.pc = "taskDeleteCommit" =>
            ~ENABLED (TaskDelete(w)
                /\ ~(IF \A c \in own : c <= r.mark
                     THEN /\ resp'.code = "NoContent" /\ inflight'[w] = Idle
                          /\ tasks' = Restrict(tasks, DOMAIN tasks \ {r.pk})
                          /\ comments' = Restrict(comments, DOMAIN comments \ own)
                          /\ UNCHANGED <<users, boards, nextBoardId, nextTaskId,
                                         nextCommentId, clock>>
                     ELSE Refused(w, "ServerError")))

\* C10 as stated: whatever the request's query string, a Delete Task is
\* allowed if and only if the sender is the task's creator or the owner of
\* its board, anyone else is answered Forbidden and the task remains, and a
\* delete that succeeds removes the task, its comments and nothing else.
C10_DeleteTaskWhateverFilter ==
    \A w \in DeleteRequestSet.workers : DeleteTaskAsClaimed(w, FALSE)

\* C10, amended: a Delete Task whose board filter names another board than
\* the task's is answered NotFound, whoever sends it, and nothing changes;
\* any other is allowed if and only if the sender is the task's creator or
\* the owner of its board, anyone else (a member, the assignee) is answered
\* Forbidden and the task remains, and a delete that succeeds removes the
\* task, its comments and nothing else.
C10_DeleteTaskByCreatorOrOwner ==
    \A w \in DeleteRequestSet.workers : DeleteTaskAsClaimed(w, TRUE)

\* A member of the board who is the task's assignee and neither created the
\* task nor owns the board was just refused its delete; the task has a
\* comment.
C10_Witness ==
    /\ resp.op = "TaskDestroy" /\ resp.code = "Forbidden"
    /\ \E t \in DOMAIN tasks :
        /\ resp.user \in boards[tasks[t].board].members
        /\ resp.user = tasks[t].assignee
        /\ resp.user # tasks[t].creator
        /\ resp.user # boards[tasks[t].board].owner
        /\ \E c \in DOMAIN comments : comments[c].task = t

\* A user the claims do not let a task of board b be assigned to or reviewed by.
Outsider(v, b) ==
    v \notin {Absent, Null} /\ v # boards[b].owner /\ v \notin boards[b].members

\* What C5 says of a Create Task sent by u with body d up to the answer of
\* the permission, the board references in falsy being left out of its
\* NotFound clause: a reference that matches no board is answered NotFound,
\* a sender who is neither owner nor member does not get past the permission,
\* and nothing is written.
CreateTaskBegunAsClaimed(w, u, d, falsy) ==
    /\ (d.board \notin falsy \cup {Absent} /\ d.board \notin DOMAIN boards) =>
            Refused(w, "NotFound")
    /\ (d.board \in DOMAIN boards /\ ~OwnerOrMember(u, d.board)) =>
            Refused(w, "Forbidden") \/ Proceeds(w, {"taskCollectionMembers"})
    /\ resp'.code # "Created" /\ UNCHANGED store
\* What C5 says of the rest of a Create Task: the query on the members
\* refuses a sender who is none, and the insert adds one task, on the board
\* the request names and with the sender as creator.
CreateTaskEndedAsClaimed(w) ==
    LET r == inflight[w]
        new == nextTaskId + 1
    IN  /\ (TaskCollectionMembers(w) /\ r.body.board \in DOMAIN boards
                /\ ~OwnerOrMember(r.user, r.body.board)) => Refused(w, "Forbidden")
        /\ (TaskInsert(w) /\ r.body.board \in DOMAIN boards) =>
            /\ resp'.code = "Created"
            /\ DOMAIN tasks' = DOMAIN tasks \cup {new} /\ new \notin DOMAIN tasks
            /\ tasks'[new].board = r.body.board /\ tasks'[new].creator = r.user
        /\ (r.op = "TaskCreate" /\ resp'.code # "Created") => tasks' = tasks

\* C5: a Create Task succeeds only for the owner or
\* a member of the board the request names, the new task then is on that
\* board with the sender as creator; a supplied board reference that matches
\* no board is answered NotFound; a request that fails creates no task.
C5_CreateTaskByOwnerOrMember ==
    [][\A w \in RichTaskRequests.workers :
        /\ \A u \in Authenticated, d \in RichTaskRequests.taskData :
            (inflight[w].pc = "idle" /\ TaskCreate(w, u, d)) =>
                CreateTaskBegunAsClaimed(w, u, d, {})
        /\ CreateTaskEndedAsClaimed(w)]_vars

\* C5 with the board reference 0 set apart: all of it holds for the other
\* references, and 0 is answered Forbidden.
C5_ExceptReferenceZero ==
    [][\A w \in RichTaskRequests.workers :
        /\ \A u \in Authenticated, d \in RichTaskRequests.taskData :
            (inflight[w].pc = "idle" /\ TaskCreate(w, u, d)) =>
                /\ CreateTaskBegunAsClaimed(w, u, d, {0})
                /\ d.board = 0 => Refused(w, "Forbidden")
        /\ CreateTaskEndedAsClaimed(w)]_vars

\* The write of a task create or update.
WritePcs == {"taskInsert", "taskSave"}

\* C6: in every reachable state the validation of a task create or update
\* that names as assignee or reviewer a user who is neither owner nor member
\* of the task's board, as the query on the members finds it, ends the
\* request with a validation error and nothing written; and a request that
\* names an assignee or a reviewer gets to its write through that validation
\* only.
C6_AssigneeReviewerMustBelong ==
    \A w \in RichTaskRequests.workers :
        LET r == inflight[w]
            b == r.board.pk
        IN  /\ b \in DOMAIN boards =>
                /\ (r.pc = "taskValidateAssignee" /\ Outsider(r.body.assignee, b)) =>
                        ~ENABLED (TaskValidateAssignee(w) /\ ~Refused(w, "ValidationError"))
                /\ (r.pc = "taskValidateReviewer" /\ Outsider(r.body.reviewer, b)) =>
                        ~ENABLED (TaskValidateReviewer(w) /\ ~Refused(w, "ValidationError"))
            /\ (Assigned(r.body.assignee) /\ r.pc \notin {"taskValidateAssignee", "taskValidateReviewer"}) =>
                    ~ENABLED (Step(w) /\ inflight'[w].pc \in WritePcs)
            /\ (Assigned(r.body.reviewer) /\ r.pc # "taskValidateReviewer") =>
                    ~ENABLED (Step(w) /\ inflight'[w].pc \in WritePcs)

\* A task update was just answered with a validation error for the owner of
\* a board that has no other member, while the task is assigned to the owner:
\* outsiders can be named and members can be assigned.
C6_Witness ==
    /\ resp.op = "TaskUpdate" /\ resp.code = "ValidationError"
    /\ \E t \in DOMAIN tasks :
        /\ boards[tasks[t].board].owner = resp.user
        /\ boards[tasks[t].board].members \subseteq {resp.user}
        /\ tasks[t].assignee = resp.user

\* The statements of a task update that come after the serializer found the
\* body's fields valid.
ValidatedPcs == {"taskValidateAssignee", "taskValidateReviewer", "taskSave"}

\* A task update whose body carries a board field -- any at all, or one
\* that is sent by PATCH or is not the task's own board -- does not get past
\* the validation of its fields: sent by the owner or a member of the task's
\* board it is answered with a validation error where the permission lets it
\* in (PATCH) or where the board field is validated (PUT), and the task is
\* left unchanged.
BoardFieldRejected(w, any) ==
    LET r == inflight[w]
        b == r.task.board
    IN  (/\ r.op = "TaskUpdate" /\ r.pc # "idle" /\ r.body.board # Absent
         /\ any \/ r.method = "PATCH" \/ r.body.board # b) =>
            /\ r.pc \notin ValidatedPcs
            /\ (r.method = "PATCH" /\ b \in DOMAIN boards /\ r.user = OwnerOf(b)) =>
                    ~ENABLED (TaskObjectBoard(w) /\ ~Refused(w, "ValidationError"))
            /\ (r.method = "PATCH" /\ b \in DOMAIN boards /\ r.user \in boards[b].members) =>
                    ~ENABLED (TaskRecheckMembers(w) /\ ~Refused(w, "ValidationError"))
            /\ ~ENABLED (TaskValidateBoard(w) /\ ~Refused(w, "ValidationError"))

\* C7 as stated: every task update that carries a board field, sent by the
\* owner or a member of the task's board, is answered with a validation
\* error and leaves the task unchanged.
C7_AnyBoardFieldRejected ==
    \A w \in MoveRequestSet.workers : BoardFieldRejected(w, TRUE)

\* C7, amended: every PATCH that carries a board field, and every PUT that
\* carries a board other than the task's own, is answered with a validation
\* error and leaves the task unchanged.
C7_BoardFieldRejected ==
    \A w \in MoveRequestSet.workers : BoardFieldRejected(w, FALSE)

\* A full update with a title that names another board than the task's,
\* one that exists and that the sender is a member of as well, was let in
\* for a member of the task's board who is not its owner, and is at the
\* validation of its board field; nothing but that validation refuses it.
C7_Witness ==
    \E w \in MoveRequestSet.workers :
        LET r == inflight[w]
        IN  /\ r.op = "TaskUpdate" /\ r.method = "PUT" /\ r.pc = "taskValidateBoard"
            /\ r.pk \in DOMAIN tasks /\ tasks[r.pk].board \in DOMAIN boards
            /\ r.body.board \in DOMAIN boards /\ r.body.board # tasks[r.pk].board
            /\ r.body.title # NoTitle
            /\ r.user \in boards[tasks[r.pk].board].members
            /\ r.user # boards[tasks[r.pk].board].owner
            /\ r.user \in boards[r.body.board].members

\* The body of a PATCH that touches no board field and names only values
\* the task accepts.
PlainPatch(m, d, b) ==
    /\ m = "PATCH" /\ d.board = Absent
    /\ d.status \in STATUS_CHOICES \cup {NoValue}
    /\ d.priority \in PRIORITY_CHOICES \cup {NoValue}
    /\ ~Outsider(d.assignee, b) /\ ~Outsider(d.reviewer, b)

\* The statements of a task read or update that come after the permission
\* of the view let the request in.
PermittedPcs ==
    {"taskGetObject", "taskObjectBoard", "taskRecheckMembers", "taskValidateBoard"}
        \cup ValidatedPcs

\* The statements of a task read or update that ask for the members of the
\* task's board.
MembersPcs == {"taskPermissionMembers", "taskObjectMembers", "taskRecheckMembers"}

\* What C9 says of a read or an update of a task, statement by statement.
\* A task id that matches no task is answered NotFound.  Of a task that is
\* there, every statement of the request answers as the task's board says:
\* sent by a user who is not the owner, no permission lets it pass without
\* the query on the members, and that query answers Forbidden, with nothing
\* changed, when it does not find the sender among them; sent by the owner
\* or a member the request is never answered Forbidden, the read is answered
\* OK, and the update of non-board fields goes through, writes the fields it
\* carries to the task (as the request loaded it) and is answered OK.  With
\* filtered, that success is said of the requests whose board filter does
\* not hide the task, and one whose filter does is answered NotFound where
\* the view loads the task; without, it is said of every request.
ReadUpdateAsClaimed(w, filtered) ==
    LET r == inflight[w]
        b == r.task.board
    IN  /\ r.pc = "idle" =>
            \A u \in Authenticated, pk \in 1..MaxTasks, q \in DetailRequestSet.filters :
                LET asClaimed == IF pk \in DOMAIN tasks
                                 THEN Proceeds(w, {"taskPermissionBoard"})
                                 ELSE Refused(w, "NotFound")
                IN  /\ ~ENABLED (TaskRetrieve(w, u, pk, q) /\ ~asClaimed)
                    /\ \A m \in Methods, d \in DetailRequestSet.taskData :
                        ~ENABLED (TaskUpdate(w, m, u, pk, q, d) /\ ~asClaimed)
        /\ (r.op \in {"TaskRetrieve", "TaskUpdate"} /\ r.pc # "idle"
                /\ r.pk \in DOMAIN tasks /\ b \in DOMAIN boards) =>
            /\ r.user # OwnerOf(b) =>
                 /\ r.pc = "taskPermissionBoard" =>
                        ~ENABLED (Step(w) /\ ~Proceeds(w, {"taskPermissionMembers"}))
                 /\ r.pc = "taskObjectBoard" =>
                        ~ENABLED (Step(w) /\ ~Proceeds(w, {"taskObjectMembers"}))
                 /\ (r.pc \in MembersPcs /\ r.user \notin boards[b].members) =>
                        ~ENABLED (Step(w) /\ ~Refused(w, "Forbidden"))
            /\ OwnerOrMember(r.user, b) =>
                 /\ ~ENABLED (Step(w) /\ resp'.code = "Forbidden")
                 /\ (filtered /\ ~Shown(r.pk, r.q)) =>
                    /\ r.pc \in {"taskPermissionBoard", "taskPermissionMembers", "taskGetObject"}
                    /\ r.pc = "taskGetObject" =>
                        ~ENABLED (TaskGetObject(w) /\ ~Refused(w, "NotFound"))
                 /\ (filtered => Shown(r.pk, r.q)) =>
                    /\ ~ENABLED (Step(w) /\ resp'.code \notin {"None", "OK", "ValidationError"})
                    /\ r.op = "TaskRetrieve" =>
                        ~ENABLED (Step(w) /\ ~(Proceeds(w, PermittedPcs \cup
                                                    {"taskPermissionMembers", "taskObjectMembers"})
                                               \/ Refused(w, "OK")))
                    /\ (r.op = "TaskUpdate" /\ PlainPatch(r.method, r.body, b)) =>
                        ~ENABLED (Step(w) /\ resp'.code \notin {"None", "OK"})
                    /\ r.pc = "taskSave" =>
                        ~ENABLED (TaskSave(w)
                            /\ ~(/\ resp'.code = "OK"
                                 /\ tasks' = [tasks EXCEPT ![r.pk] =
                                        TaskSerializer_update(r.method, r.task, r.body)]))

\* C9 as stated: whatever the request's query string, a read and an update
\* of non-board fields are allowed if and only if the sender is the owner or
\* a member of the task's board; anyone else is answered Forbidden with the
\* task unchanged, and a task id that does not exist is answered NotFound.
C9_TaskReadUpdateWhateverFilter ==
    \A w \in DetailRequestSet.workers : ReadUpdateAsClaimed(w, FALSE)

\* C9, amended: a read or an update that carries no board filter, or the
\* filter that names the task's board, is allowed if and only if the sender
\* is the owner or a member of the task's board; anyone else is answered
\* Forbidden with the task unchanged, whatever the filter; a task id that
\* does not exist is answered NotFound, and so is the request of the owner
\* or a member whose board filter names another board than the task's.
C9_TaskReadUpdateByOwnerOrMember ==
    \A w \in DetailRequestSet.workers : ReadUpdateAsClaimed(w, TRUE)

\* A member who is not the owner just updated a task, which is done.
C9_Witness ==
    /\ resp.op = "TaskUpdate" /\ resp.code = "OK"
    /\ \E t \in DOMAIN tasks :
        /\ resp.user \in boards[tasks[t].board].members
        /\ resp.user # boards[tasks[t].board].owner
        /\ tasks[t].status = "done"

\* The board of the task a comment is on.
BoardOfComment(c) == tasks[comments[c].task].board

\* C11: in every reachable state a Delete Comment sent by an authenticated
\* user who is not the comment's author, the owner and the members of the
\* task's board included, is answered Forbidden and the comment is still
\* there; whatever task the route names, such a delete removes nothing.  The
\* author's delete goes through, only a request of the author gets to the
\* delete, and the delete removes that comment only.
C11_DeleteCommentOnlyByAuthor ==
    \A w \in CommentRequestSet.workers :
        /\ inflight[w].pc = "idle" =>
            \A u \in Authenticated, c \in DOMAIN comments :
                IF u # comments[c].author
                THEN /\ ~ENABLED (CommentDestroy(w, u, comments[c].task, c)
                            /\ ~Refused(w, "Forbidden"))
                     /\ \A t \in 1..CommentRequestSet.maxTasks :
                            ~ENABLED (CommentDestroy(w, u, t, c)
                                /\ ~(resp'.code \in {"Forbidden", "NotFound"}
                                     /\ inflight'[w] = Idle /\ UNCHANGED store))
                ELSE ~ENABLED (CommentDestroy(w, u, comments[c].task, c)
                            /\ ~Proceeds(w, {"commentDelete"}))
        /\ LET r == inflight[w]
           IN  (r.pc = "commentDelete" /\ r.pk \in DOMAIN comments) =>
                /\ r.user = comments[r.pk].author
                /\ ~ENABLED (CommentDelete(w)
                        /\ ~(/\ resp'.code = "NoContent" /\ inflight'[w] = Idle
                             /\ comments' = Restrict(comments, DOMAIN comments \ {r.pk})
                             /\ UNCHANGED <<boards, tasks>>))

\* The owner of the board was just refused the delete of a comment that a
\* member wrote.
C11_Witness ==
    /\ resp.op = "CommentDestroy" /\ resp.code = "Forbidden"
    /\ \E c \in DOMAIN comments :
        /\ boards[BoardOfComment(c)].owner = resp.user
        /\ comments[c].author # resp.user
        /\ comments[c].author \in boards[BoardOfComment(c)].members

\* What C12 and C13 say of the permission of a comment request on task T
\* that is in progress: decided on T's board, as the statement finds it, a
\* sender who is neither owner nor member is answered Forbidden, at the
\* latest by the query on the members, and the owner and the members get to
\* the statement pc.
CommentPermissionAsClaimed(w, pc) ==
    LET r == inflight[w]
        b == r.task.board
    IN  (r.pc \in {"taskObjectBoard", "taskObjectMembers"} /\ b \in DOMAIN boards) =>
            ~ENABLED (Step(w)
                /\ ~(IF OwnerOrMember(r.user, b)
                     THEN Proceeds(w, {pc} \cup
                            (IF r.pc = "taskObjectBoard" THEN {"taskObjectMembers"} ELSE {}))
                     ELSE \/ Refused(w, "Forbidden")
                          \/ r.pc = "taskObjectBoard" /\ Proceeds(w, {"taskObjectMembers"})))

\* What C12 says of the first answer to a Create Comment on task t sent by
\* u: a task id that matches no task is answered NotFound, and nothing is
\* written.
CreateCommentBegunAsClaimed(w, u, t, content) ==
    /\ t \notin DOMAIN tasks => Refused(w, "NotFound")
    /\ t \in DOMAIN tasks =>
            \/ Proceeds(w, {"taskObjectBoard"})
            \/ content = NoValue /\ Refused(w, "ValidationError")
    /\ UNCHANGED store

\* What C12 says of the insert of a Create Comment: once the time of
\* creation is taken, which changes no row, one comment more, on the task
\* the request names and with the sender as author.
CreateCommentEndedAsClaimed(w) ==
    LET r == inflight[w]
        new == nextCommentId + 1
    IN  /\ r.pc = "commentInsert" =>
            ~ENABLED (CommentCreatedAt(w)
                /\ ~(/\ resp' = NoAnswer /\ inflight'[w].pc = "commentSave"
                     /\ UNCHANGED <<users, boards, tasks, comments, nextCommentId>>))
        /\ (r.pc = "commentSave" /\ r.pk \in DOMAIN tasks) =>
            ~ENABLED (CommentInsert(w)
                /\ ~(/\ resp'.code = "Created" /\ inflight'[w] = Idle
                     /\ DOMAIN comments' = DOMAIN comments \cup {new}
                     /\ new \notin DOMAIN comments
                     /\ comments'[new].task = r.pk /\ comments'[new].author = r.user
                     /\ \A c \in DOMAIN comments : comments'[c] = comments[c]
                     /\ UNCHANGED <<boards, tasks>>))

\* C12: a Create Comment on task T succeeds only for the owner or a member
\* of T's board, and the new comment then is on T with the sender as author;
\* sent by anyone else it is answered Forbidden, on a task id that matches no
\* task it is answered NotFound, and a request that fails creates no comment.
C12_CreateCommentByOwnerOrMember ==
    \A w \in CommentRequestSet.workers :
        /\ inflight[w].pc = "idle" =>
            \A u \in Authenticated, t \in 1..CommentRequestSet.maxTasks, c \in {NoValue, "LGTM"} :
                ~ENABLED (CommentCreate(w, u, t, c) /\ ~CreateCommentBegunAsClaimed(w, u, t, c))
        /\ inflight[w].op = "CommentCreate" =>
            /\ CommentPermissionAsClaimed(w, "commentInsert")
            /\ CreateCommentEndedAsClaimed(w)

\* C12 for the requests that carry a content: all of it holds, and the owner
\* and the members are let in; a request without content is answered with a
\* validation error whoever sends it and whatever task it names.
C12_WhenContentSupplied ==
    \A w \in CommentRequestSet.workers :
        /\ inflight[w].pc = "idle" =>
            \A u \in Authenticated, t \in 1..CommentRequestSet.maxTasks :
                /\ ~ENABLED (CommentCreate(w, u, t, "LGTM")
                        /\ ~CreateCommentBegunAsClaimed(w, u, t, "LGTM"))
                /\ ~ENABLED (CommentCreate(w, u, t, NoValue)
                        /\ ~Refused(w, "ValidationError"))
        /\ inflight[w].op = "CommentCreate" =>
            /\ CommentPermissionAsClaimed(w, "commentInsert")
            /\ CreateCommentEndedAsClaimed(w)

\* C13: in every reachable state a list of the comments of task T is
\* answered NotFound when T matches no task, Forbidden when the sender is
\* neither owner nor member of T's board, and otherwise returns each comment
\* whose task is T exactly once and no other, the earlier created first; it
\* changes nothing.
C13_ListCommentsOfTask ==
    \A w \in CommentRequestSet.workers :
        /\ inflight[w].pc = "idle" =>
            \A u \in Authenticated, t \in 1..CommentRequestSet.maxTasks :
                ~ENABLED (CommentList(w, u, t)
                    /\ ~(IF t \in DOMAIN tasks THEN Proceeds(w, {"taskObjectBoard"})
                         ELSE Refused(w, "NotFound")))
        /\ inflight[w].op = "CommentList" =>
            /\ CommentPermissionAsClaimed(w, "commentList")
            /\ inflight[w].pc = "commentList" =>
                ~ENABLED (CommentListRespond(w)
                    /\ ~(LET b == resp'.body
                         IN  /\ resp'.code = "OK" /\ inflight'[w] = Idle /\ UNCHANGED store
                             /\ {b[i] : i \in DOMAIN b} =
                                    {c \in DOMAIN comments : comments[c].task = inflight[w].pk}
                             /\ \A i, j \in DOMAIN b : i < j =>
                                    comments[b[i]].created_at < comments[b[j]].created_at))

\* A member who is not the owner was just shown the two comments of a task,
\* written by different users.
C13_Witness ==
    /\ resp.op = "CommentList" /\ resp.code = "OK" /\ Len(resp.body) = 2
    /\ resp.body[1] \in DOMAIN comments /\ resp.body[2] \in DOMAIN comments
    /\ comments[resp.body[1]].author # comments[resp.body[2]].author
    /\ resp.user # boards[BoardOfComment(resp.body[1])].owner

\* C15: in every reachable state a board list sent by user U returns each
\* board that U owns or is a member of exactly once, and no other board; it
\* changes nothing.
C15_ListBoardsOfUser ==
    \A w \in BoardRequestSet.workers :
        inflight[w].pc = "idle" =>
            \A u \in Authenticated :
                ~ENABLED (BoardList(w, u)
                    /\ ~(LET b == resp'.body
                         IN  /\ resp'.code = "OK"
                             /\ {b[i] : i \in DOMAIN b} =
                                    {pk \in DOMAIN boards : OwnerOrMember(u, pk)}
                             /\ \A i, j \in DOMAIN b : i # j => b[i] # b[j]
                             /\ inflight'[w] = Idle /\ UNCHANGED store))

\* A user was just listed two boards: one they own and are, with another
\* user, a member of, and one they are a member of without owning it.
C15_Witness ==
    /\ resp.op = "BoardList" /\ resp.code = "OK" /\ Len(resp.body) = 2
    /\ \E b1 \in DOMAIN boards, b2 \in DOMAIN boards :
        /\ boards[b1].owner = resp.user /\ resp.user \in boards[b1].members
        /\ boards[b1].members # {resp.user}
        /\ boards[b2].owner # resp.user /\ resp.user \in boards[b2].members

\* C16: in every reachable state a Create Board that names, as a member, an
\* id no user has is answered with a validation error and creates no board;
\* any other Create Board with a title, sent by an authenticated user, adds
\* one board, owned by the sender, and changes no other board; the request
\* then reads the member set of that board and removes the rows it is not
\* to keep, which changes nothing yet, and its last write makes the supplied
\* set of ids (empty when the request carries none) the member set of that
\* board, when no other request wrote it since it was read or is writing at
\* that moment, and the request is answered Created.
C16_CreateBoard ==
    \A w \in BoardRequestSet.workers :
        /\ inflight[w].pc = "idle" =>
            \A u \in Authenticated, d \in BoardRequestSet.boardData :
                LET ids == IF d.members = <<>> THEN {} ELSE d.members[1]
                IN  ~ENABLED (BoardCreate(w, u, d)
                        /\ ~(IF ids \ Users # {} THEN Refused(w, "ValidationError")
                             ELSE IF d.title = NoTitle
                             THEN resp'.code \notin {"Created", "None"}
                                  /\ inflight'[w] = Idle /\ UNCHANGED store
                             ELSE /\ Proceeds(w, {"boardCreateInsert"})
                                  /\ inflight'[w].user = u
                                  /\ inflight'[w].data = [title |-> d.title,
                                                          members |-> <<ids>>]))
        /\ LET r == inflight[w]
               new == nextBoardId + 1
           IN  /\ r.pc = "boardCreateInsert" =>
                    ~ENABLED (BoardCreateInsert(w)
                        /\ ~(/\ resp' = NoAnswer
                             /\ new \notin DOMAIN boards
                             /\ DOMAIN boards' = DOMAIN boards \cup {new}
                             /\ boards'[new].owner = r.user
                             /\ boards'[new].title = r.data.title
                             /\ boards'[new].members = {}
                             /\ \A b \in DOMAIN boards : boards'[b] = boards[b]
                             /\ inflight'[w].pc = "boardInserted"
                             /\ inflight'[w].pk = new /\ inflight'[w].user = r.user
                             /\ inflight'[w].data = r.data))
               /\ r.pc = "boardInserted" =>
                    ~ENABLED (BoardCreateMembersSelect(w)
                        /\ ~Proceeds(w, {"boardMembersCreate"}))
               /\ (r.pc = "boardMembersCreate" /\ ~Busy(w)) =>
                    ~ENABLED (BoardCreateMembersRemove(w)
                        /\ ~Proceeds(w, {"boardMembersCreateAdd"}))
               /\ (r.pc = "boardMembersCreateAdd" /\ r.pk \in DOMAIN boards
                        /\ boards[r.pk].members = r.old
                        /\ r.removed = MembersToRemove(r) /\ ~Busy(w)) =>
                    ~ENABLED (BoardCreateMembersSet(w)
                        /\ ~(/\ resp'.code = "Created" /\ resp'.user = r.user
                             /\ inflight'[w] = Idle
                             /\ boards' = [boards EXCEPT ![r.pk].members = r.data.members[1]]
                             /\ boards'[r.pk].owner = r.user))

\* A board was just created whose members are not empty and do not include
\* its owner, the sender.
C16_Witness ==
    /\ resp.op = "BoardCreate" /\ resp.code = "Created"
    /\ nextBoardId \in DOMAIN boards
    /\ boards[nextBoardId].owner = resp.user
    /\ boards[nextBoardId].members # {}
    /\ resp.user \notin boards[nextBoardId].members

\* C17: in every reachable state no statement of a board update before its
\* first write changes a board, and a partial update (PATCH) by the owner or
\* a member is let in, whichever of the two fields it carries.  An update
\* that names, as a member, an id no user has is refused where the member
\* set would be read for the write, with neither title nor members changed.
\* An update that was let in writes the member set only when the request
\* carries one, and then makes it the supplied set of ids, when no other
\* request wrote it since it was read or is writing at that moment (the
\* rows it removes are gone with that write, not before); it leaves the
\* title equal to
\* the supplied one, or, when the request carries none, as it was when no
\* other request wrote another title since this one started; it leaves the
\* owner and every other board as they were, and is answered OK.
C17_UpdateBoardPartial ==
    \A w \in BoardRequestSet.workers :
        /\ inflight[w].pc = "idle" =>
            \A m \in Methods, u \in Authenticated, pk \in DOMAIN boards,
               d \in BoardRequestSet.updateData :
                ~ENABLED (BoardUpdate(w, m, u, pk, d)
                    /\ ~(/\ UNCHANGED store
                         /\ resp'.code # "None" => inflight'[w] = Idle
                         /\ resp'.code = "None" => inflight'[w].data = d
                         /\ (u = OwnerOf(pk) /\ m = "PATCH") =>
                                Proceeds(w, {IF Supplied(d.members)
                                             THEN "boardMembersSet" ELSE "boardSave"})))
        /\ LET r == inflight[w]
               ids == ValueOf(r.data.members)
           IN  (r.op = "BoardUpdate" /\ r.pk \in DOMAIN boards) =>
                /\ r.pc = "boardMembers" =>
                    ~ENABLED (BoardPermissionMembers(w)
                        /\ ~(/\ UNCHANGED store
                             /\ (r.user \in boards[r.pk].members /\ r.method = "PATCH") =>
                                    Proceeds(w, {IF Supplied(r.data.members)
                                                 THEN "boardMembersSet" ELSE "boardSave"})))
                /\ r.pc = "boardMembersSet" =>
                    /\ Supplied(r.data.members)
                    /\ ~ENABLED (BoardMembersSelect(w)
                        /\ ~(IF ids \ Users # {} THEN Refused(w, "ValidationError")
                             ELSE Proceeds(w, {"boardMembersWrite"})))
                /\ (r.pc = "boardMembersWrite" /\ ~Busy(w)) =>
                    /\ Supplied(r.data.members)
                    /\ ~ENABLED (BoardMembersRemove(w)
                        /\ ~Proceeds(w, {"boardMembersAdd"}))
                /\ (r.pc = "boardMembersAdd" /\ boards[r.pk].members = r.old
                        /\ r.removed = MembersToRemove(r) /\ ~Busy(w)) =>
                    /\ Supplied(r.data.members)
                    /\ ~ENABLED (BoardMembersSet(w)
                        /\ ~(/\ boards' = [boards EXCEPT ![r.pk].members = ids]
                             /\ resp' = NoAnswer /\ inflight'[w].pc = "boardSave"))
                /\ r.pc = "boardSave" =>
                    ~ENABLED (BoardSave(w)
                        /\ ~(/\ resp'.code = "OK" /\ inflight'[w] = Idle
                             /\ DOMAIN boards' = DOMAIN boards
                             /\ boards'[r.pk].members = boards[r.pk].members
                             /\ boards'[r.pk].owner = boards[r.pk].owner
                             /\ r.data.title # NoTitle => boards'[r.pk].title = r.data.title
                             /\ (r.data.title = NoTitle /\ r.board.title = boards[r.pk].title) =>
                                    boards'[r.pk].title = boards[r.pk].title
                             /\ \A b \in DOMAIN boards \ {r.pk} : boards'[b] = boards[b]))

\* A user who does not own the board just updated it and is not one of its
\* members any more: the member set they were in was replaced.
C17_Witness ==
    /\ resp.op = "BoardUpdate" /\ resp.code = "OK"
    /\ \E pk \in DOMAIN boards :
        /\ resp.user # boards[pk].owner /\ resp.user \notin boards[pk].members
        /\ boards[pk].members # {}
        /\ \A b \in DOMAIN boards \ {pk} : ~OwnerOrMember(resp.user, b)

\* C14: in every reachable state the "assigned to me" list of user U returns
\* each task whose assignee is U exactly once and no other task, a task that
\* U only reviews included; it changes nothing.
C14_AssignedToMe ==
    \A w \in AssignRequestSet.workers :
        inflight[w].pc = "idle" =>
            \A u \in Authenticated :
                ~ENABLED (TaskAssignedToMe(w, u)
                    /\ ~(LET b == resp'.body
                         IN  /\ resp'.code = "OK"
                             /\ {b[i] : i \in DOMAIN b} =
                                    {t \in DOMAIN tasks : tasks[t].assignee = u}
                             /\ \A i, j \in DOMAIN b : i # j => b[i] # b[j]
                             /\ inflight'[w] = Idle /\ UNCHANGED store))

\* A user was just listed the one task assigned to them, while they review
\* another task that is assigned to someone else.
C14_Witness ==
    /\ resp.op = "TaskAssignedToMe" /\ resp.code = "OK" /\ Len(resp.body) = 1
    /\ resp.body[1] \in DOMAIN tasks /\ tasks[resp.body[1]].assignee = resp.user
    /\ \E t \in DOMAIN tasks :
        /\ tasks[t].reviewer = resp.user
        /\ tasks[t].assignee \in Users \ {resp.user}

\* The tasks C20 has a task list with board filter q return.
TasksFiltered(q) == {t \in DOMAIN tasks : q = Absent \/ tasks[t].board = q}
RowsOf(b) == {b[i] : i \in DOMAIN b}

\* The list of a task list request that got to its query is the one C20
\* says: the tasks the filter of the query string selects, each once.
TaskListAsClaimed(w) ==
    inflight[w].pc = "taskList" =>
        ~ENABLED (TaskListRespond(w)
            /\ ~(/\ resp'.code = "OK" /\ inflight'[w] = Idle /\ UNCHANGED store
                 /\ RowsOf(resp'.body) = TasksFiltered(inflight[w].q)
                 /\ Len(resp'.body) = Cardinality(TasksFiltered(inflight[w].q))))

\* C20: a task list sent by an authenticated user succeeds and returns all
\* tasks, or with a board filter in the query string the tasks of that board,
\* whether or not the request names a board anywhere else.
C20_ListTasks ==
    \A w \in ListRequestSet.workers :
        /\ inflight[w].pc = "idle" =>
            \A u \in Authenticated, d \in ListRequestSet.listData,
               q \in ListRequestSet.listFilters :
                ~ENABLED (TaskList(w, u, d, q)
                    /\ ~Proceeds(w, {"taskList", "taskCollectionMembers"}))
        /\ TaskListAsClaimed(w)

\* C20 for the requests whose body names a board the sender owns or is a
\* member of: the list succeeds and returns the tasks the claim says, each
\* once.  A list request without a board in its body is answered Forbidden,
\* one whose body names a board of others Forbidden, and one whose body names
\* no existing board NotFound; none changes anything.
C20_WhenBodyNamesOwnBoard ==
    \A w \in ListRequestSet.workers :
        /\ inflight[w].pc = "idle" =>
            \A u \in Authenticated, d \in ListRequestSet.listData,
               q \in ListRequestSet.listFilters :
                ~ENABLED (TaskList(w, u, d, q)
                    /\ ~(IF d.board = Absent THEN Refused(w, "Forbidden")
                         ELSE IF d.board \notin DOMAIN boards THEN Refused(w, "NotFound")
                         ELSE IF u = OwnerOf(d.board) THEN Proceeds(w, {"taskList"})
                         ELSE Proceeds(w, {"taskCollectionMembers"})))
        /\ LET r == inflight[w]
           IN  (r.op = "TaskList" /\ r.pc = "taskCollectionMembers"
                    /\ r.body.board \in DOMAIN boards) =>
                ~ENABLED (TaskCollectionMembers(w)
                    /\ ~(IF r.user \in boards[r.body.board].members
                         THEN Proceeds(w, {"taskList"})
                         ELSE Refused(w, "Forbidden")))
        /\ TaskListAsClaimed(w)

\* The answer C18 has every request without credentials get.
Denied(w) == Refused(w, "NotAuthenticated")

\* C18: in every reachable state every board, task and comment request sent
\* without credentials is answered with an authentication failure, never
\* NotFound, Forbidden or a validation error, whatever rows it names and
\* whatever its body, and changes nothing.
C18_AnonymousDeniedFirst ==
    LET R == AnyoneRequestSet
        a == Anonymous
    IN  \A w \in R.workers :
        inflight[w].pc = "idle" =>
            /\ \A d \in R.boardData : ~ENABLED (BoardCreate(w, a, d) /\ ~Denied(w))
            /\ ~ENABLED (BoardList(w, a) /\ ~Denied(w))
            /\ \A pk \in 1..R.maxBoards + 1 :
                /\ ~ENABLED (BoardRetrieve(w, a, pk) /\ ~Denied(w))
                /\ ~ENABLED (BoardDestroy(w, a, pk) /\ ~Denied(w))
                /\ \A m \in Methods, d \in R.updateData :
                        ~ENABLED (BoardUpdate(w, m, a, pk, d) /\ ~Denied(w))
            /\ \A d \in R.taskData : ~ENABLED (TaskCreate(w, a, d) /\ ~Denied(w))
            /\ \A d \in R.listData, q \in R.listFilters :
                    ~ENABLED (TaskList(w, a, d, q) /\ ~Denied(w))
            /\ ~ENABLED (TaskAssignedToMe(w, a) /\ ~Denied(w))
            /\ ~ENABLED (TaskReviewing(w, a) /\ ~Denied(w))
            /\ \A pk \in 1..R.maxTasks + 1, q \in R.filters :
                /\ ~ENABLED (TaskRetrieve(w, a, pk, q) /\ ~Denied(w))
                /\ ~ENABLED (TaskDestroy(w, a, pk, q) /\ ~Denied(w))
                /\ \A m \in Methods, d \in R.taskData :
                        ~ENABLED (TaskUpdate(w, m, a, pk, q, d) /\ ~Denied(w))
            /\ \A t \in 1..R.maxTasks + 1 :
                /\ ~ENABLED (CommentList(w, a, t) /\ ~Denied(w))
                /\ \A c \in {NoValue, "LGTM"} :
                        ~ENABLED (CommentCreate(w, a, t, c) /\ ~Denied(w))
                /\ \A c \in 1..R.maxComments + 1 :
                        ~ENABLED (CommentDestroy(w, a, t, c) /\ ~Denied(w))

\* A Create Task without credentials was just refused as unauthenticated
\* while a board, a task and a comment exist.
C18_Witness ==
    /\ resp.op = "TaskCreate" /\ resp.user = Anonymous
    /\ resp.code = "NotAuthenticated"
    /\ DOMAIN boards # {} /\ DOMAIN tasks # {} /\ DOMAIN comments # {}

\* C19: a board update that carries the new title "Sprint 2" together with
\* the new member set is atomic for the workers that run beside it: no read
\* is answered from a board that has the new member set and still the old
\* title, and once the title "Sprint 2" is written no update that carries no
\* title puts the old one back.
C19_BoardUpdateAtomic ==
    [][/\ \A w \in Workers :
            BoardRetrieveRespond(w) =>
                ~(/\ inflight[w].pk \in DOMAIN boards
                  /\ BoardShown(w).members = UserIds
                  /\ BoardShown(w).title = "Sprint 1"
                  /\ boards[inflight[w].pk].title = "Sprint 1")
       /\ \A pk \in DOMAIN boards \cap DOMAIN boards' :
            boards[pk].title = "Sprint 2" => boards'[pk].title = "Sprint 2"]_vars

\* No task comes or goes, and each keeps its assignee and its reviewer.
TasksKept ==
    /\ DOMAIN tasks' = DOMAIN tasks
    /\ \A t \in DOMAIN tasks :
            /\ tasks'[t].assignee = tasks[t].assignee
            /\ tasks'[t].reviewer = tasks[t].reviewer

\* C21: in every reachable state no statement of a board update, whatever
\* member set it leaves, changes a task: assignee and reviewer of every task
\* stay as they were.  A task assigned to, or reviewed by, a user who is
\* neither owner nor member of its board any more is still in that user's
\* "assigned to me", or "reviewing", list.
C21_RemovedMemberKeepsTasks ==
    \A w \in AssignRequestSet.workers :
        /\ inflight[w].pc = "idle" =>
            /\ \A m \in Methods, u \in Authenticated, pk \in DOMAIN boards,
                  d \in AssignRequestSet.updateData :
                    ~ENABLED (BoardUpdate(w, m, u, pk, d) /\ ~TasksKept)
            /\ \A u \in Authenticated, t \in DOMAIN tasks :
                ~OwnerOrMember(u, tasks[t].board) =>
                    /\ tasks[t].assignee = u =>
                            ~ENABLED (TaskAssignedToMe(w, u)
                                /\ ~(resp'.code = "OK" /\ t \in RowsOf(resp'.body)))
                    /\ tasks[t].reviewer = u =>
                            ~ENABLED (TaskReviewing(w, u)
                                /\ ~(resp'.code = "OK" /\ t \in RowsOf(resp'.body)))
        /\ inflight[w].op = "BoardUpdate" =>
            /\ ~ENABLED (BoardPermissionMembers(w) /\ ~TasksKept)
            /\ ~ENABLED (BoardMembersSelect(w) /\ ~TasksKept)
            /\ ~ENABLED (BoardMembersRemove(w) /\ ~TasksKept)
            /\ ~ENABLED (BoardMembersSet(w) /\ ~TasksKept)
            /\ ~ENABLED (BoardSave(w) /\ ~TasksKept)
            /\ ~ENABLED (BoardInsert(w) /\ ~TasksKept)

\* A board update just succeeded, and a user who is neither owner nor member
\* of the board is the assignee of one of its tasks and the reviewer of
\* another: the update took that user off the board.
C21_Witness ==
    /\ resp.op = "BoardUpdate" /\ resp.code = "OK"
    /\ \E u \in Users, t1 \in DOMAIN tasks, t2 \in DOMAIN tasks :
        /\ t1 # t2
        /\ tasks[t1].assignee = u /\ tasks[t2].reviewer = u
        /\ ~OwnerOrMember(u, tasks[t1].board)
        /\ ~OwnerOrMember(u, tasks[t2].board)

\* The statuses and the priorities C22 names.
Statuses == {"to-do", "in-progress", "review", "done"}
Priorities == {"low", "medium", "high"}
OutOfRange(d) ==
    \/ d.status \notin Statuses \cup {NoValue}
    \/ d.priority \notin Priorities \cup {NoValue}

\* C22: in every reachable state every task has one of the four statuses and
\* one of the three priorities; a create or an update that carries any other
\* status or priority does not get to its write: it is answered with a
\* validation error where its fields are validated, nothing written.  From
\* whatever status the task has, an update by the owner or a member of the
\* task's board that carries one of the four statuses, partial or full, is
\* taken up, is not refused by any of its statements, and its save sets that
\* status.
C22_StatusPriorityEnumerated ==
    /\ \A t \in DOMAIN tasks :
            tasks[t].status \in Statuses /\ tasks[t].priority \in Priorities
    /\ \A w \in StatusRequestSet.workers :
        LET r == inflight[w]
            b == r.task.board
        IN  /\ r.pc = "idle" =>
                \A u \in Authenticated, pk \in DOMAIN tasks, to \in Statuses :
                    /\ ENABLED (/\ TaskUpdate(w, "PATCH", u, pk, Absent,
                                              [NoData EXCEPT !.status = to])
                                /\ Proceeds(w, {"taskPermissionBoard"}))
                    /\ ENABLED (/\ TaskUpdate(w, "PUT", u, pk, Absent,
                                              [NoData EXCEPT !.board = tasks[pk].board,
                                                             !.title = "Fix bug", !.status = to])
                                /\ Proceeds(w, {"taskPermissionBoard"}))
            /\ (r.op \in {"TaskCreate", "TaskUpdate"} /\ OutOfRange(r.body)) =>
                /\ r.pc \notin {"taskInsert", "taskSave"}
                /\ ~ENABLED (TaskValidateBoard(w) /\ ~Refused(w, "ValidationError"))
                /\ (r.method = "PATCH" /\ b \in DOMAIN boards) =>
                    /\ r.user = OwnerOf(b) =>
                        ~ENABLED (TaskObjectBoard(w) /\ ~Refused(w, "ValidationError"))
                    /\ r.user \in boards[b].members =>
                        ~ENABLED (TaskRecheckMembers(w) /\ ~Refused(w, "ValidationError"))
            /\ (/\ r.op = "TaskUpdate" /\ r.pc # "idle" /\ ~OutOfRange(r.body)
                /\ r.pk \in DOMAIN tasks /\ b \in DOMAIN boards
                /\ OwnerOrMember(r.user, b)
                /\ IF r.method = "PATCH" THEN r.body.board = Absent
                   ELSE r.body.board = b /\ r.body.title # NoTitle) =>
                    /\ ~ENABLED (Step(w) /\ resp'.code \notin {"None", "OK"})
                    /\ (r.pc = "taskSave" /\ r.body.status # NoValue) =>
                        ~ENABLED (TaskSave(w)
                            /\ ~(resp'.code = "OK" /\ tasks'[r.pk].status = r.body.status))

\* A member who is not the owner just updated a task that is done and of
\* high priority: it was created as to-do and medium.
C22_Witness ==
    /\ resp.op = "TaskUpdate" /\ resp.code = "OK"
    /\ \E t \in DOMAIN tasks :
        /\ tasks[t].status = "done" /\ tasks[t].priority = "high"
        /\ resp.user # boards[tasks[t].board].owner
        /\ resp.user \in boards[tasks[t].board].members

====
